---------------------------- MODULE Spec2Model ----------------------------
(***************************************************************************)
(* failure-lambda proxy (layer/proxy): the invocation lifecycle of the     *)
(* intercepting Runtime API proxy, its configuration cache and the failure *)
(* effects, as a state machine.                                            *)
(*                                                                         *)
(* Conventions.  An Option<T> is a sequence of length <= 1: <<>> is None,  *)
(* <<x>> is Some(x).  A Rust String is a sequence of one-character         *)
(* strings.  A JSON value is a record tagged by t.  A body (bytes on the   *)
(* wire) is tagged by k: "json" for the serialisation of a JSON value,     *)
(* "text" for UTF-8 text that is not JSON, "bin" for bytes that are not    *)
(* UTF-8.                                                                  *)
(***************************************************************************)
EXTENDS Integers, Sequences, FiniteSets, TLC

(***************************************************************************)
(* Bounds of the model.                                                    *)
(***************************************************************************)
MaxEvents == 2      \* events the upstream Runtime API supplies in one run
MaxFinish == 1      \* POST /response and /error requests the runtime sends
MaxConditions == 3  \* match conditions handed to matches_conditions
MaxMembers == 2     \* members of the raw JSON root handed to parse_flags
MaxPercentage == 150  \* the largest percentage a flag handed to resolve_failures holds

Some(x) == <<x>>
None == <<>>
IsSome(o) == o # <<>>
Unwrap(o) == o[1]
UnwrapOr(o, d) == IF o = <<>> THEN d ELSE o[1]

Min(a, b) == IF a <= b THEN a ELSE b
Max(a, b) == IF a >= b THEN a ELSE b

(***************************************************************************)
(* JSON values (serde_json::Value).                                        *)
(***************************************************************************)
JNull == [t |-> "null"]
JStr(s) == [t |-> "str", s |-> s]
JNum(n) == [t |-> "num", n |-> n]
JBool(b) == [t |-> "bool", b |-> b]
JObj(f) == [t |-> "obj", f |-> f]
NoFields == [k \in {} |-> JNull]

\* serde_json Value::get(&str): a member of an object, None for anything else
JGet(v, key) ==
    IF v.t = "obj" /\ key \in DOMAIN v.f THEN Some(v.f[key]) ELSE None

\* serde_json::from_slice / from_str on a body: Ok(value) for JSON text
FromSlice(body) == IF body.k = "json" THEN Some(body.v) ELSE None
\* serde_json::to_string of a value, as bytes on the wire
ToBody(v) == [k |-> "json", v |-> v]
TextBody(s) == [k |-> "text", s |-> s]
BinBody == [k |-> "bin"]
\* std::str::from_utf8 succeeds
IsUtf8(body) == body.k # "bin"

(***************************************************************************)
(* config.rs: the flag model.                                              *)
(***************************************************************************)
\* variant for C5: timeout ahead of latency
FAILURE_MODE_ORDER_TimeoutFirst ==
    <<"timeout", "latency", "diskspace", "denylist", "statuscode",
      "exception", "corruption">>

\* variant for C36: exception ahead of statuscode
FAILURE_MODE_ORDER_ExceptionFirst ==
    <<"latency", "timeout", "diskspace", "denylist", "exception",
      "statuscode", "corruption">>

FAILURE_MODE_ORDER ==
    <<"latency", "timeout", "diskspace", "denylist", "statuscode",
      "exception", "corruption">>

DEFAULT_CACHE_TTL_SECONDS == 60

\* FlagValue::default()
DefaultFlag ==
    [enabled |-> FALSE, percentage |-> None, min_latency |-> None,
     max_latency |-> None, exception_msg |-> None, status_code |-> None,
     disk_space |-> None, deny_list |-> None, timeout_buffer_ms |-> None,
     body |-> None, match_conditions |-> None]

MatchCondition(path, value, operator) ==
    [path |-> path, value |-> value, operator |-> operator]

ResolvedFailure(mode, percentage, flag) ==
    [mode |-> mode, percentage |-> percentage, flag |-> flag]

\* variant for C15: a flag is listed whether it is enabled or not
RECURSIVE ResolveFromAll(_, _, _)
ResolveFromAll(order, config, i) ==
    IF i > Len(order) THEN <<>>
    ELSE LET mode == order[i]
             rest == ResolveFromAll(order, config, i + 1)
         IN IF mode \in DOMAIN config
            THEN <<ResolvedFailure(mode,
                       Min(UnwrapOr(config[mode].percentage, 100), 100),
                       config[mode])>> \o rest
            ELSE rest

\* variant for C16: the percentage as configured, 100 when missing
RECURSIVE ResolveFromUnclamped(_, _, _)
ResolveFromUnclamped(order, config, i) ==
    IF i > Len(order) THEN <<>>
    ELSE LET mode == order[i]
             rest == ResolveFromUnclamped(order, config, i + 1)
         IN IF mode \in DOMAIN config /\ config[mode].enabled
            THEN <<ResolvedFailure(mode,
                       UnwrapOr(config[mode].percentage, 100),
                       config[mode])>> \o rest
            ELSE rest

RECURSIVE ResolveFrom(_, _, _)
ResolveFrom(order, config, i) ==
    IF i > Len(order) THEN <<>>
    ELSE LET mode == order[i]
             rest == ResolveFrom(order, config, i + 1)
         IN IF mode \in DOMAIN config /\ config[mode].enabled
            THEN <<ResolvedFailure(mode,
                       Min(UnwrapOr(config[mode].percentage, 100), 100),
                       config[mode])>> \o rest
            ELSE rest

resolve_failures(config) == ResolveFrom(FAILURE_MODE_ORDER, config, 1)

EmptyConfig == [m \in {} |-> DefaultFlag]

(***************************************************************************)
(* failures.rs: the match engine.                                          *)
(***************************************************************************)
\* str::split('.') on a path given as its tokens: a key, or the separator "."
RECURSIVE SplitPath(_)
SplitPath(path) ==
    IF path = <<>> THEN <<"">>
    ELSE IF Head(path) = "."
         THEN <<"">> \o SplitPath(Tail(path))
         ELSE IF Len(path) = 1 THEN <<Head(path)>>
              ELSE IF path[2] = "."
                   THEN <<Head(path)>> \o SplitPath(Tail(Tail(path)))
                   ELSE <<Head(path)>> \o SplitPath(Tail(path))

RECURSIVE NestedFrom(_, _, _)
NestedFrom(current, parts, i) ==
    IF i > Len(parts) THEN Some(current)
    ELSE LET next == JGet(current, parts[i])
         IN IF next = None THEN None ELSE NestedFrom(Unwrap(next), parts, i + 1)

get_nested_value(obj, path) == NestedFrom(obj, SplitPath(path), 1)

Digit(d) == <<"0", "1", "2", "3", "4", "5", "6", "7", "8", "9">>[d + 1]
RECURSIVE NatToString(_)
NatToString(n) ==
    IF n < 10 THEN <<Digit(n)>> ELSE NatToString(n \div 10) \o <<Digit(n % 10)>>

\* composite values print as their JSON text; the events modelled hold only
\* objects without members below the paths that conditions address
json_value_to_string(v) ==
    CASE v.t = "str" -> v.s
      [] v.t = "num" -> NatToString(v.n)
      [] v.t = "bool" -> IF v.b THEN <<"t", "r", "u", "e">>
                         ELSE <<"f", "a", "l", "s", "e">>
      [] v.t = "null" -> <<"n", "u", "l", "l">>
      [] OTHER -> IF DOMAIN v.f = {} THEN <<"{", "}">> ELSE <<"{", "..", "}">>

StartsWith(s, p) == Len(p) <= Len(s) /\ SubSeq(s, 1, Len(p)) = p
Contains(s, p) ==
    \E i \in 0..(Len(s) - Len(p)) : SubSeq(s, i + 1, i + Len(p)) = p

\* Regex::new and Regex::is_match for the patterns of the model: a pattern
\* holding "[" (an unclosed class, as "[invalid") does not compile, any
\* other pattern is a literal that matches anywhere in the text.
RegexCompiles(pattern) == \A i \in 1..Len(pattern) : pattern[i] # "["
get_cached_regex(pattern) ==
    IF RegexCompiles(pattern) THEN Some(pattern) ELSE None

match_operator(actual, operator, value) ==
    LET present == actual # None /\ Unwrap(actual).t # "null"
        actual_str == json_value_to_string(Unwrap(actual))
        val == UnwrapOr(value, <<>>)
    IN CASE operator = "exists" -> present
         [] operator = "startsWith" -> present /\ StartsWith(actual_str, val)
         [] operator = "regex" ->
                present /\ get_cached_regex(val) # None
                        /\ Contains(actual_str, Unwrap(get_cached_regex(val)))
         [] OTHER -> present /\ actual_str = val

\* variant for C19: one condition that holds is enough
matches_conditions_Any(event, conditions) ==
    \E i \in 1..Len(conditions) :
        match_operator(get_nested_value(event, conditions[i].path),
                       UnwrapOr(conditions[i].operator, "eq"),
                       conditions[i].value)

matches_conditions(event, conditions) ==
    \A i \in 1..Len(conditions) :
        match_operator(get_nested_value(event, conditions[i].path),
                       UnwrapOr(conditions[i].operator, "eq"),
                       conditions[i].value)

(***************************************************************************)
(* failures.rs: the failure effects.                                       *)
(***************************************************************************)
\* inject_latency: the sleeps floor(min + r * range) can take, r in [0, 1)
LatencyMs(flag) ==
    LET min_latency == Max(UnwrapOr(flag.min_latency, 0), 0)
        max_latency == Max(UnwrapOr(flag.max_latency, 0), 0)
        range == Max(max_latency - min_latency, 0)
    IN IF range = 0 THEN {min_latency}
       ELSE min_latency..(min_latency + range - 1)

\* inject_timeout: the sleep up to the deadline less the buffer
TimeoutMs(deadline_ms, flag, now_ms) ==
    LET buffer_ms == Max(UnwrapOr(flag.timeout_buffer_ms, 0), 0)
    IN IF deadline_ms > now_ms + buffer_ms
       THEN deadline_ms - now_ms - buffer_ms ELSE 0

build_exception_payload(flag) ==
    JObj([errorMessage |->
              JStr(UnwrapOr(flag.exception_msg, <<"Injected exception">>)),
          errorType |-> JStr(<<"FailureLambdaException">>)])

build_statuscode_payload(flag) ==
    LET status_code == UnwrapOr(flag.status_code, 500)
    IN JObj([statusCode |-> JNum(status_code),
             headers |-> JObj([ContentType |-> JStr(<<"application/json">>)]),
             body |-> JStr(<<"{\"message\":\"Injected status code ">>
                           \o NatToString(status_code) \o <<"\"}">>)])

\* UTF-8 width of a character of the model
ByteLen(c) == IF c = "FFFD" THEN 3 ELSE IF c \in {"e'", "u:"} THEN 2 ELSE 1
RECURSIVE StrBytes(_)
StrBytes(s) == IF s = <<>> THEN 0 ELSE ByteLen(Head(s)) + StrBytes(Tail(s))
\* byte offset at which character i starts (char_indices)
CharIndex(s, i) == StrBytes(SubSeq(s, 1, i - 1))

\* mangle_string for the truncate point drawn
MangleAt(input, truncate_point) ==
    LET last == CHOOSE i \in 1..Len(input) :
                    /\ CharIndex(input, i) <= truncate_point
                    /\ \A j \in 1..Len(input) :
                           CharIndex(input, j) <= truncate_point => j <= i
    IN SubSeq(input, 1, last - 1) \o <<"FFFD", "FFFD", "FFFD">>

\* variant for C21: the string is cut at any of its bytes
TruncatePointsAny(len) == 0..(len - 1)

\* floor(len * f) for the fractions f = 0.3 + r * 0.5, r in [0, 1)
TruncatePoints(len) == ((3 * len) \div 10)..((8 * len - 1) \div 10)

mangle_string(input) ==
    IF input = <<>> THEN {input}
    ELSE {MangleAt(input, p) : p \in TruncatePoints(StrBytes(input))}

\* variant for C20: a JSON body with no body field is replaced as text is
corrupt_response_Unwrapped(flag, body) ==
    LET json == FromSlice(body)
        isObj == json # None /\ Unwrap(json).t = "obj"
        obj == Unwrap(json).f
    IN IF flag.body # None
       THEN IF isObj /\ "body" \in DOMAIN obj
            THEN {ToBody(JObj([obj EXCEPT
                                 !["body"] = JStr(Unwrap(flag.body))]))}
            ELSE {TextBody(Unwrap(flag.body))}
       ELSE IF isObj /\ "body" \in DOMAIN obj /\ obj["body"].t = "str"
            THEN {ToBody(JObj([obj EXCEPT !["body"] = JStr(m)])) :
                      m \in mangle_string(obj["body"].s)}
            ELSE {body}

\* corrupt_response: the bodies it can return for a UTF-8 body
corrupt_response(flag, body) ==
    LET json == FromSlice(body)
        isObj == json # None /\ Unwrap(json).t = "obj"
        obj == Unwrap(json).f
    IN IF flag.body # None
       THEN IF json # None
            THEN IF isObj /\ "body" \in DOMAIN obj
                 THEN {ToBody(JObj([obj EXCEPT
                                      !["body"] = JStr(Unwrap(flag.body))]))}
                 ELSE {ToBody(JObj([body |-> JStr(Unwrap(flag.body))]))}
            ELSE {TextBody(Unwrap(flag.body))}
       ELSE IF isObj /\ "body" \in DOMAIN obj /\ obj["body"].t = "str"
            THEN {ToBody(JObj([obj EXCEPT !["body"] = JStr(m)])) :
                      m \in mangle_string(obj["body"].s)}
            ELSE {body}

(***************************************************************************)
(* config.rs: reading the flags from JSON.                                 *)
(***************************************************************************)
\* serde_json arrays, and numbers that are written with a fraction or an
\* exponent (serde_json keeps them apart from the integers)
JArr(a) == [t |-> "arr", a |-> a]
JFloat(n) == [t |-> "float", n |-> n]

\* serde_json::from_value::<FlagValue>: Ok(flag) or Err.  A missing member
\* of an Option field is None, as null is; enabled defaults to false when
\* it is missing; match is the name of match_conditions; a MatchOperator is
\* its camelCase name; members of other names are ignored.  The integers
\* of the model are all below 2^32.
Ok(v) == [ok |-> TRUE, v |-> v]
Err == [ok |-> FALSE]

OperatorNames == {"eq", "exists", "startsWith", "regex"}

from_value(raw) ==
    LET Member(v, key) == IF key \in DOMAIN v.f THEN v.f[key] ELSE JNull
        OptionU32(v) ==
            CASE v.t = "null" -> Ok(None)
              [] v.t = "num" /\ v.n >= 0 -> Ok(Some(v.n))
              [] OTHER -> Err
        OptionU16(v) ==
            CASE v.t = "null" -> Ok(None)
              [] v.t = "num" /\ v.n >= 0 /\ v.n <= 65535 -> Ok(Some(v.n))
              [] OTHER -> Err
        OptionF64(v) ==
            CASE v.t = "null" -> Ok(None)
              [] v.t \in {"num", "float"} -> Ok(Some(v.n))
              [] OTHER -> Err
        OptionString(v) ==
            CASE v.t = "null" -> Ok(None)
              [] v.t = "str" -> Ok(Some(v.s))
              [] OTHER -> Err
        OptionStrings(v) ==
            CASE v.t = "null" -> Ok(None)
              [] v.t = "arr" /\ (\A i \in DOMAIN v.a : v.a[i].t = "str")
                    -> Ok(Some([i \in DOMAIN v.a |-> v.a[i].s]))
              [] OTHER -> Err
        OptionOperator(v) ==
            CASE v.t = "null" -> Ok(None)
              [] v.t = "str" /\ Len(v.s) = 1 /\ v.s[1] \in OperatorNames
                    -> Ok(Some(v.s[1]))
              [] OTHER -> Err
        Condition(v) ==
            IF v.t # "obj" \/ "path" \notin DOMAIN v.f
                           \/ v.f["path"].t # "str"
            THEN Err
            ELSE LET value == OptionString(Member(v, "value"))
                     operator == OptionOperator(Member(v, "operator"))
                 IN IF value.ok /\ operator.ok
                    THEN Ok(MatchCondition(v.f["path"].s, value.v,
                                           operator.v))
                    ELSE Err
        OptionConditions(v) ==
            CASE v.t = "null" -> Ok(None)
              [] v.t = "arr" /\ (\A i \in DOMAIN v.a : Condition(v.a[i]).ok)
                    -> Ok(Some([i \in DOMAIN v.a |-> Condition(v.a[i]).v]))
              [] OTHER -> Err
        enabled == IF "enabled" \notin DOMAIN raw.f THEN Ok(FALSE)
                   ELSE IF raw.f["enabled"].t = "bool"
                        THEN Ok(raw.f["enabled"].b) ELSE Err
        percentage == OptionU32(Member(raw, "percentage"))
        min_latency == OptionF64(Member(raw, "min_latency"))
        max_latency == OptionF64(Member(raw, "max_latency"))
        exception_msg == OptionString(Member(raw, "exception_msg"))
        status_code == OptionU16(Member(raw, "status_code"))
        disk_space == OptionU32(Member(raw, "disk_space"))
        deny_list == OptionStrings(Member(raw, "deny_list"))
        timeout_buffer_ms == OptionF64(Member(raw, "timeout_buffer_ms"))
        body == OptionString(Member(raw, "body"))
        match_conditions == OptionConditions(Member(raw, "match"))
    IN IF /\ enabled.ok /\ percentage.ok /\ min_latency.ok /\ max_latency.ok
          /\ exception_msg.ok /\ status_code.ok /\ disk_space.ok
          /\ deny_list.ok /\ timeout_buffer_ms.ok /\ body.ok
          /\ match_conditions.ok
       THEN Ok([enabled |-> enabled.v, percentage |-> percentage.v,
                min_latency |-> min_latency.v, max_latency |-> max_latency.v,
                exception_msg |-> exception_msg.v,
                status_code |-> status_code.v, disk_space |-> disk_space.v,
                deny_list |-> deny_list.v,
                timeout_buffer_ms |-> timeout_buffer_ms.v, body |-> body.v,
                match_conditions |-> match_conditions.v])
       ELSE Err

\* the errors validate_flag_value reports for a flag of a mode: the field,
\* and its index in a list (0 when it is in none)
validate_flag_value(mode, flag, raw) ==
    LET ValidationError(field, index) == [field |-> field, index |-> index]
        When(found, field) ==
            IF found THEN {ValidationError(field, 0)} ELSE {}
        ConditionErrors(cond, i) ==
            LET op == UnwrapOr(cond.operator, "eq")
                In(found, field) ==
                    IF found THEN {ValidationError(field, i)} ELSE {}
            IN In(cond.path = <<>>, "match.path")
               \cup In(op \notin OperatorNames, "match.operator")
               \cup In(op # "exists" /\ cond.value = None, "match.value")
               \cup In(/\ op = "regex" /\ cond.value # None
                       /\ ~RegexCompiles(Unwrap(cond.value)), "match.value")
        Given(o, Bad(_), field) ==
            When(o # None /\ Bad(Unwrap(o)), field)
        Negative(x) == x < 0
        NotText(key) ==
            key \in DOMAIN raw.f /\ raw.f[key].t \notin {"str", "null"}
    IN When("enabled" \notin DOMAIN raw.f \/ raw.f["enabled"].t # "bool",
            "enabled")
       \cup Given(flag.percentage, LAMBDA pct : pct > 100, "percentage")
       \cup (CASE mode = "latency" ->
                    Given(flag.min_latency, Negative, "min_latency")
                    \cup Given(flag.max_latency, Negative, "max_latency")
                    \cup When(/\ flag.min_latency # None
                              /\ flag.max_latency # None
                              /\ Unwrap(flag.min_latency)
                                    > Unwrap(flag.max_latency),
                              "max_latency")
               [] mode = "exception" ->
                    When(NotText("exception_msg"), "exception_msg")
               [] mode = "statuscode" ->
                    Given(flag.status_code,
                          LAMBDA code : code \notin 100..599,
                          "status_code")
               [] mode = "diskspace" ->
                    Given(flag.disk_space,
                          LAMBDA space : space = 0 \/ space > 10240,
                          "disk_space")
               [] mode = "denylist" ->
                    IF flag.deny_list = None THEN {}
                    ELSE {ValidationError("deny_list", i) :
                            i \in {n \in DOMAIN Unwrap(flag.deny_list) :
                                     ~RegexCompiles(Unwrap(flag.deny_list)[n])}}
               [] mode = "timeout" ->
                    Given(flag.timeout_buffer_ms, Negative,
                          "timeout_buffer_ms")
               [] mode = "corruption" -> When(NotText("body"), "body")
               [] OTHER -> {})
       \cup (IF flag.match_conditions = None THEN {}
             ELSE UNION {ConditionErrors(Unwrap(flag.match_conditions)[i], i) :
                            i \in DOMAIN Unwrap(flag.match_conditions)})

known_flags == {FAILURE_MODE_ORDER[i] : i \in DOMAIN FAILURE_MODE_ORDER}

\* variant for C17: a flag is kept when it deserializes, whatever the
\* validation finds
ParsesUnvalidated(key, value) ==
    /\ key \in known_flags
    /\ value.t = "obj"
    /\ from_value(value).ok

\* the body of the loop of parse_flags: the member is inserted
Parses(key, value) ==
    /\ key \in known_flags
    /\ value.t = "obj"
    /\ from_value(value).ok
    /\ validate_flag_value(key, from_value(value).v, value) = {}

parse_flags(raw) ==
    IF raw.t # "obj" THEN EmptyConfig
    ELSE [key \in {k \in DOMAIN raw.f : Parses(k, raw.f[k])}
            |-> from_value(raw.f[key]).v]

\* Serialize for FlagValue: every field is written, None as null, an f64
\* with its fraction, match_conditions under the name match
SerializeFlag(flag) ==
    LET Nullable(o, v) == IF o = None THEN JNull ELSE v
        Strings(list) == JArr([i \in DOMAIN list |-> JStr(list[i])])
        Condition(cond) ==
            JObj([key \in {"path", "value", "operator"} |->
                    CASE key = "path" -> JStr(cond.path)
                      [] key = "value" ->
                             Nullable(cond.value, JStr(Unwrap(cond.value)))
                      [] OTHER ->
                             Nullable(cond.operator,
                                      JStr(<<Unwrap(cond.operator)>>))])
        Conditions(list) == JArr([i \in DOMAIN list |-> Condition(list[i])])
    IN JObj([key \in {"enabled", "percentage", "min_latency", "max_latency",
                      "exception_msg", "status_code", "disk_space",
                      "deny_list", "timeout_buffer_ms", "body", "match"} |->
               CASE key = "enabled" -> JBool(flag.enabled)
                 [] key = "percentage" ->
                        Nullable(flag.percentage, JNum(Unwrap(flag.percentage)))
                 [] key = "min_latency" ->
                        Nullable(flag.min_latency,
                                 JFloat(Unwrap(flag.min_latency)))
                 [] key = "max_latency" ->
                        Nullable(flag.max_latency,
                                 JFloat(Unwrap(flag.max_latency)))
                 [] key = "exception_msg" ->
                        Nullable(flag.exception_msg,
                                 JStr(Unwrap(flag.exception_msg)))
                 [] key = "status_code" ->
                        Nullable(flag.status_code,
                                 JNum(Unwrap(flag.status_code)))
                 [] key = "disk_space" ->
                        Nullable(flag.disk_space, JNum(Unwrap(flag.disk_space)))
                 [] key = "deny_list" ->
                        Nullable(flag.deny_list,
                                 Strings(Unwrap(flag.deny_list)))
                 [] key = "timeout_buffer_ms" ->
                        Nullable(flag.timeout_buffer_ms,
                                 JFloat(Unwrap(flag.timeout_buffer_ms)))
                 [] key = "body" -> Nullable(flag.body, JStr(Unwrap(flag.body)))
                 [] OTHER ->
                        Nullable(flag.match_conditions,
                                 Conditions(Unwrap(flag.match_conditions)))])

\* variant for C18: only the flags that are enabled are written
to_value_EnabledOnly(config) ==
    JObj([key \in {k \in DOMAIN config : config[k].enabled}
             |-> SerializeFlag(config[key])])

\* serde_json::to_value of a FailureFlagsConfig
to_value(config) ==
    JObj([key \in DOMAIN config |-> SerializeFlag(config[key])])

(***************************************************************************)
(* The inputs of the model.                                                *)
(***************************************************************************)
MethodPath == <<"requestContext", ".", "http", ".", "method">>

ApiEvent(method) ==
    JObj([requestContext |-> JObj([http |-> JObj([method |-> JStr(method)])])])

\* what the upstream Runtime API answers to GET /next: the body and the
\* lambda-runtime-deadline-ms header (None: the header is absent), and
\* the lambda-runtime-client-context header (None: absent), whose value
\* holds bytes outside visible ASCII
Events ==
    {[body |-> ToBody(ApiEvent(<<"G", "E", "T">>)), deadline |-> Some(48000),
      context |-> None],
     [body |-> TextBody(<<"ping">>), deadline |-> None, context |-> Some(1)]}

\* bodies the runtime posts to /response and /error
RuntimeBodies ==
    {ToBody(JObj([statusCode |-> JNum(200),
                  body |-> JStr(<<"a", "b", "c", "d">>),
                  requestContext |-> JObj([http |-> JObj([method |->
                                       JStr(<<"P", "O", "S", "T">>)])])])),
     TextBody(<<"plain">>),
     BinBody}

OnGet == Some(<<MatchCondition(MethodPath, Some(<<"G", "E", "T">>), None)>>)

\* flag configurations the validator accepts, as a source can hold them:
\* the ones an operator changes between
Rotated ==
    <<EmptyConfig,
      [latency |-> [DefaultFlag EXCEPT !.enabled = TRUE,
                       !.min_latency = Some(10), !.max_latency = Some(10)],
       timeout |-> [DefaultFlag EXCEPT !.enabled = TRUE,
                       !.timeout_buffer_ms = Some(1000),
                       !.match_conditions = OnGet],
       diskspace |-> [DefaultFlag EXCEPT !.enabled = TRUE,
                       !.disk_space = Some(1), !.percentage = Some(50)],
       exception |-> [DefaultFlag EXCEPT !.percentage = Some(100)],
       corruption |-> [DefaultFlag EXCEPT !.enabled = TRUE,
                       !.body = Some(<<"corrupted">>),
                       !.match_conditions = OnGet]],
      [diskspace |-> [DefaultFlag EXCEPT !.enabled = TRUE,
                       !.disk_space = Some(1)],
       denylist |-> [DefaultFlag EXCEPT !.enabled = TRUE,
                       !.deny_list = Some(<<<<"a.example">>, <<"b.example">>>>)],
       statuscode |-> [DefaultFlag EXCEPT !.enabled = TRUE,
                       !.status_code = Some(503), !.percentage = Some(50)],
       exception |-> [DefaultFlag EXCEPT !.enabled = TRUE,
                       !.exception_msg = Some(<<"boom">>),
                       !.match_conditions = OnGet]]>>

\* and, last, one with the denylist failure alone
Configs ==
    Rotated \o <<[denylist |-> [DefaultFlag EXCEPT !.enabled = TRUE,
                                !.deny_list = Some(<<<<"c.example">>>>)]]>>

\* variant for C32: a roll can be 100
RollsInclusive == {0, 50, 100}

\* the rolls gen::<f64>() * 100.0 of the model, in [0, 100)
Rolls == {0, 50, 99}

\* statuses the upstream answers a forwarded POST with
Statuses == {202, 500}

Environment(disabled, appconfig, param, ttl) ==
    [FAILURE_LAMBDA_DISABLED |-> disabled,
     FAILURE_APPCONFIG_CONFIGURATION |-> appconfig,
     FAILURE_INJECTION_PARAM |-> param,
     FAILURE_CACHE_TTL |-> ttl]

\* the process environment, fixed when the process starts
Envs ==
    {Environment(Some("TRUE"), None, Some(<<"param">>), Some(<<"3", "0">>)),
     Environment(None, Some(<<"flags">>), Some(<<"param">>), None),
     Environment(Some("true"), None, Some(<<"param">>), None),
     Environment(None, Some(<<>>), None, Some(<<"x">>))}

\* one task per accepted connection (start_proxy)
Conns == {1}

\* the request ids the upstream issues
Ids == 1..MaxEvents

(***************************************************************************)
(* The state.                                                              *)
(***************************************************************************)
VARIABLES
    env,          \* the process environment
    remote,       \* index in Configs of what the config source holds now
    cache,        \* ConfigManager.cache: Option<CachedConfig>, fetched_at
                  \* kept as the seconds elapsed since (fetched_at.elapsed())
    invocations,  \* ProxyState.invocations: request id -> InvocationState
    denyFile,     \* /tmp/.failure-lambda-denylist: Option<[lines, owner]>
    denyTmp,      \* /tmp/.failure-lambda-denylist.tmp: Option<lines>
    diskFiles,    \* the diskspace-failure-* files in /tmp, by creating event
    upNext,       \* the id of the last event the upstream has handed out
    upPosts,      \* per id, the POSTs the upstream has received, in order
    handed,       \* ids of the events the runtime has received
    task,         \* per connection: the handler running and its locals
    nFinish,      \* POST /response and /error requests received so far
    boot          \* main: where it is, _ORIGINAL_RUNTIME_API, the steps of
                  \* the startup it has done, and the exit code once exited

vars == <<env, remote, cache, invocations, denyFile, denyTmp, diskFiles,
          upNext, upPosts, handed, task, nFinish, boot>>

files == <<denyFile, denyTmp, diskFiles>>
upstream == <<upNext, upPosts>>
world == <<env, remote, boot>>

NoInvocations == [id \in {} |-> 0]

\* main has come to the accept loop of start_proxy
Serving ==
    [pc |-> "serving", api |-> Some(<<"127.0.0.1:9001">>),
     steps |-> <<"prewarm", "bind", "ready">>, code |-> None]

\* a connection with no request in progress.  trace, fired, first_id, got
\* via and asked record what the handler did; the handler reads none of them.
\* req is the request of a handler that forwards it as it came; written
\* is the offset, in lines, of the file handle of write_denylist; removed
\* says that the handler has run invocations.remove for its request id;
\* behind is the set of connections whose fetch was under way when the
\* fetch of this get_config call started; warned says that the upstream
\* answered the short-circuit POST with a status that is no success
IdleTask ==
    [pc |-> "idle", kind |-> "none", request_id |-> 0,
     event_body |-> BinBody, response_headers |-> <<>>, deadline_ms |-> 0,
     event |-> JNull, config |-> EmptyConfig, fetched |-> None,
     resolved |-> <<>>, idx |-> 0, post_handler_failures |-> <<>>,
     denylist_active |-> FALSE, should_short_circuit |-> FALSE,
     endpoint |-> "", body |-> BinBody, final_body |-> BinBody,
     taken |-> None, written |-> 0, sleep_ms |-> 0, resp |-> None,
     trace |-> <<>>, fired |-> {}, first_id |-> 0, got |-> None,
     via |-> "", asked |-> {}, req |-> None, removed |-> FALSE,
     behind |-> {}, warned |-> FALSE]

\* the process has started and serves the connections conns: nothing
\* cached, stored, written or pulled
Untouched ==
    /\ cache = None
    /\ invocations = NoInvocations
    /\ denyFile = None
    /\ denyTmp = None
    /\ diskFiles = {}
    /\ upNext = 0
    /\ upPosts = [id \in Ids |-> <<>>]
    /\ handed = {}
    /\ nFinish = 0

StartedWith(conns, envs) ==
    /\ env \in envs
    /\ boot = Serving
    /\ Untouched
    /\ task = [t \in conns |-> IdleTask]

Started == StartedWith(Conns, Envs)

Init == Started /\ remote = 1

Set(t, r) == task' = [task EXCEPT ![t] = r]

\* variant for C23: a handler error is answered 500
BadGatewayInternal ==
    [status |-> 500, body |-> TextBody(<<"proxy error: ">>), headers |-> <<>>]

\* handle_request: a handler's Err becomes 502 "proxy error: ..."
BadGateway ==
    [status |-> 502, body |-> TextBody(<<"proxy error: ">>), headers |-> <<>>]
Answer(status, body, headers) ==
    [status |-> status, body |-> body, headers |-> headers]

(***************************************************************************)
(* config.rs: ConfigManager.                                               *)
(***************************************************************************)
\* variant for C26: a variable set to the empty string counts as set
NonEmptyOrSet(v) == v # None

NonEmpty(v) == v # None /\ Unwrap(v) # <<>>

is_appconfig_source == NonEmpty(env.FAILURE_APPCONFIG_CONFIGURATION)
is_ssm_source == NonEmpty(env.FAILURE_INJECTION_PARAM)

\* str::parse::<f64> on a value of whole seconds: Some(n), or None
RECURSIVE ParseDigits(_, _)
ParseDigits(s, acc) ==
    IF s = <<>> THEN Some(acc)
    ELSE IF \E d \in 0..9 : Digit(d) = Head(s)
         THEN ParseDigits(Tail(s),
                  10 * acc + (CHOOSE d \in 0..9 : Digit(d) = Head(s)))
         ELSE None
ParseSeconds(s) ==
    IF s = <<>> THEN None
    ELSE IF Head(s) = "-"
         THEN IF Tail(s) # <<>> /\ ParseDigits(Tail(s), 0) # None
              THEN Some(0 - Unwrap(ParseDigits(Tail(s), 0))) ELSE None
         ELSE ParseDigits(s, 0)

\* variant for C13: the default TTL whatever the source
get_cache_ttl_Default ==
    IF ~NonEmpty(env.FAILURE_CACHE_TTL)
    THEN DEFAULT_CACHE_TTL_SECONDS
    ELSE LET seconds == ParseSeconds(Unwrap(env.FAILURE_CACHE_TTL))
         IN IF seconds # None /\ Unwrap(seconds) >= 0
            THEN Unwrap(seconds) ELSE DEFAULT_CACHE_TTL_SECONDS

get_cache_ttl ==
    IF ~NonEmpty(env.FAILURE_CACHE_TTL)
    THEN IF is_appconfig_source THEN 0 ELSE DEFAULT_CACHE_TTL_SECONDS
    ELSE LET seconds == ParseSeconds(Unwrap(env.FAILURE_CACHE_TTL))
         IN IF seconds # None /\ Unwrap(seconds) >= 0
            THEN Unwrap(seconds) ELSE DEFAULT_CACHE_TTL_SECONDS

(***************************************************************************)
(* The environment.  Time passes, a quarter of a minute at a step, while   *)
(* the proxy waits for the upstream's next event; the monotonic clock is   *)
(* read by the cache check and by nothing else, and once the TTL has       *)
(* elapsed more time changes nothing.  The configuration at the source     *)
(* changes at any time; it is read by a fetch and by nothing else, so the  *)
(* model lets it change when a fetch is about to read it.                  *)
(***************************************************************************)
Tick ==
    /\ \E t \in DOMAIN task : task[t].pc = "n_get"
    /\ cache # None
    /\ Unwrap(cache).elapsed < get_cache_ttl
    /\ cache' = Some([Unwrap(cache) EXCEPT !.elapsed = @ + 15])
    /\ UNCHANGED <<world, invocations, files, upstream, handed, task,
                   nFinish>>

RotateConfig ==
    /\ \E t \in DOMAIN task : task[t].pc = "g_fetch"
    /\ \E c \in DOMAIN Rotated : c # remote /\ remote' = c
    /\ UNCHANGED <<env, boot, cache, invocations, files, upstream, handed,
                   task, nFinish>>

\* variant for C10: an entry as old as the TTL still counts as fresh
CacheFreshInclusive(cached, cache_ttl) == cached.elapsed <= cache_ttl

\* the cache check of get_config
CacheFresh(cached, cache_ttl) ==
    cache_ttl # 0 /\ cached.elapsed < cache_ttl

\* variant for C14: the parameter store is asked when its name is set
FetchSourceParamFirst ==
    IF is_ssm_source THEN "ssm" ELSE "appconfig"

\* the source get_config fetches from: AppConfig is looked at first
FetchSource ==
    IF is_appconfig_source THEN "appconfig" ELSE "ssm"

\* get_config up to the fetch: the cached copy, the empty map, or a fetch
GCheck(t) ==
    /\ task[t].pc = "g_check"
    /\ IF cache # None /\ CacheFresh(Unwrap(cache), get_cache_ttl)
       THEN Set(t, [task[t] EXCEPT !.config = Unwrap(cache).config,
                                   !.via = "cache", !.asked = {},
                                   !.pc = "n_resolve"])
       ELSE IF is_appconfig_source \/ is_ssm_source
            THEN Set(t, [task[t] EXCEPT !.via = "fetch",
                                        !.asked = {FetchSource},
                                        !.behind = {u \in DOMAIN task \ {t} :
                                           task[u].pc \in {"g_fetch",
                                              "g_store", "g_stale"}},
                                        !.pc = "g_fetch"])
            ELSE Set(t, [task[t] EXCEPT !.config = EmptyConfig,
                                        !.via = "none", !.asked = {},
                                        !.pc = "n_resolve"])
    /\ UNCHANGED <<world, cache, invocations, files, upstream, handed,
                   nFinish>>

\* fetch_from_appconfig / fetch_from_ssm answer: the parsed flags, or Err
GFetch(t) ==
    /\ task[t].pc = "g_fetch"
    /\ \E ok \in BOOLEAN :
          Set(t, [task[t] EXCEPT
                     !.fetched = IF ok THEN Some(Configs[remote]) ELSE None,
                     !.pc = IF ok THEN "g_store" ELSE "g_stale"])
    /\ UNCHANGED <<world, cache, invocations, files, upstream, handed,
                   nFinish>>

\* get_config, result Some: replace the cache slot, return the config
GStore(t) ==
    /\ task[t].pc = "g_store"
    /\ cache' = Some([config |-> Unwrap(task[t].fetched), elapsed |-> 0])
    /\ Set(t, [task[t] EXCEPT !.config = Unwrap(task[t].fetched),
                              !.fetched = None, !.pc = "n_resolve"])
    /\ UNCHANGED <<world, invocations, files, upstream, handed, nFinish>>

\* variant for C11: a failed fetch disables every failure
StaleFallbackEmpty == EmptyConfig

\* what get_config returns when the fetch has failed
StaleFallback ==
    IF cache # None THEN Unwrap(cache).config ELSE EmptyConfig

\* variant for C38: a failed fetch empties the cache slot
SlotAfterFailureEmpty == None

\* the cache slot after a fetch that failed: the guard is only read
SlotAfterFailure == cache

\* get_config, result None: the last known config, or the empty map
GStale(t) ==
    /\ task[t].pc = "g_stale"
    /\ Set(t, [task[t] EXCEPT !.config = StaleFallback,
                              !.via = "stale", !.pc = "n_resolve"])
    /\ cache' = SlotAfterFailure
    /\ UNCHANGED <<world, invocations, files, upstream, handed, nFinish>>

(***************************************************************************)
(* proxy.rs: GET /runtime/invocation/next (handle_invocation_next).        *)
(***************************************************************************)
KillSwitch == env.FAILURE_LAMBDA_DISABLED = Some("true")

\* the headers of an upstream answer whose value is text (HeaderValue::to_str)
TextHeaders(headers) == SelectSeq(headers, LAMBDA h : h.text)

UpstreamHeaders(id, e) ==
    <<[name |-> "lambda-runtime-aws-request-id", value |-> id, text |-> TRUE]>>
    \o (IF e.deadline = None THEN <<>>
        ELSE <<[name |-> "lambda-runtime-deadline-ms",
                value |-> Unwrap(e.deadline), text |-> TRUE]>>)
    \o <<[name |-> "content-type", value |-> 0, text |-> TRUE]>>
    \o (IF e.context = None THEN <<>>
        ELSE <<[name |-> "lambda-runtime-client-context",
                value |-> Unwrap(e.context), text |-> FALSE]>>)

\* build_proxy_response
build_proxy_response(body, headers) == Answer(200, body, headers)

\* the handler returns resp: its locals are dropped, what it did stays on
\* record until the answer is written
Returned(me, resp) ==
    [IdleTask EXCEPT !.pc = "done", !.kind = me.kind,
                     !.request_id = me.request_id, !.resp = Some(resp),
                     !.fired = me.fired, !.first_id = me.first_id,
                     !.got = me.got, !.removed = me.removed]

\* remove_denylist: both files go, a missing file is no error
RemoveDenylist == denyFile' = None /\ denyTmp' = None

StartNext(t) ==
    /\ task[t].pc = "idle"
    /\ Set(t, [IdleTask EXCEPT !.pc = "n_clear", !.kind = "next"])
    /\ UNCHANGED <<world, cache, invocations, files, upstream, handed,
                   nFinish>>

\* Step 1a: clear_diskspace on a blocking worker
NClear(t) ==
    /\ task[t].pc = "n_clear"
    /\ diskFiles' = {}
    /\ Set(t, [task[t] EXCEPT !.pc = "n_table"])
    /\ UNCHANGED <<world, cache, invocations, denyFile, denyTmp, upstream,
                   handed, nFinish>>

\* Step 1b: under the table's lock, forget every entry and remove the
\* denylist file if one of them had installed it
NTable(t) ==
    /\ task[t].pc = "n_table"
    /\ LET had_denylist ==
               \E id \in DOMAIN invocations : invocations[id].denylist_active
       IN IF had_denylist THEN RemoveDenylist
          ELSE UNCHANGED <<denyFile, denyTmp>>
    /\ invocations' = NoInvocations
    /\ Set(t, [task[t] EXCEPT !.pc = "n_get"])
    /\ UNCHANGED <<world, cache, diskFiles, upstream, handed, nFinish>>

\* Step 2 and 3: the upstream answers GET /next with event id; with the kill
\* switch set the event goes to the runtime at once.  An id names a new
\* invocation: what the model remembers under it starts empty.
Pull(t, id) ==
    /\ upNext' = id
    /\ upPosts' = [upPosts EXCEPT ![id] = <<>>]
    /\ \E e \in Events :
          LET headers == TextHeaders(UpstreamHeaders(id, e))
              me == [task[t] EXCEPT
                        !.request_id = id,
                        !.deadline_ms = UnwrapOr(e.deadline, 0),
                        !.response_headers = headers,
                        !.event_body = e.body,
                        !.event = UnwrapOr(FromSlice(e.body), JNull),
                        !.fired = {f \in @ : f.id # id},
                        !.first_id = IF @ = 0 THEN id ELSE @,
                        !.got = Some([body |-> e.body,
                                      headers |-> UpstreamHeaders(id, e)])]
          IN IF KillSwitch
             THEN /\ Set(t, Returned(me, build_proxy_response(
                                         me.event_body, me.response_headers)))
                  /\ handed' = (handed \ {id}) \cup {id}
             ELSE /\ Set(t, [me EXCEPT !.pc = "g_check"])
                  /\ handed' = handed \ {id}
    /\ UNCHANGED <<world, cache, invocations, files, nFinish>>

NGet(t) ==
    /\ task[t].pc = "n_get"
    /\ upNext < MaxEvents
    /\ Pull(t, upNext + 1)

\* Step 2 fails: the request is not answered, or the body of the answer
\* cannot be read (the upstream has handed the event out by then)
NGetFail(t) ==
    /\ task[t].pc = "n_get"
    /\ \E lost \in BOOLEAN :
          /\ lost => upNext < MaxEvents
          /\ upNext' = IF lost THEN upNext + 1 ELSE upNext
    /\ Set(t, Returned(task[t], BadGateway))
    /\ UNCHANGED <<world, cache, invocations, files, upPosts, handed,
                   nFinish>>

\* Step 4: resolve; nothing enabled returns the event
NResolve(t) ==
    /\ task[t].pc = "n_resolve"
    /\ LET me == task[t]
           resolved_failures == resolve_failures(me.config)
       IN IF resolved_failures = <<>>
          THEN /\ Set(t, Returned(me, build_proxy_response(
                                      me.event_body, me.response_headers)))
               /\ handed' = handed \cup {me.request_id}
          ELSE /\ Set(t, [me EXCEPT !.pc = "n_loop", !.config = EmptyConfig,
                             !.behind = {},
                             !.resolved = resolved_failures, !.idx = 1])
               /\ UNCHANGED handed
    /\ UNCHANGED <<world, cache, invocations, files, upstream, nFinish>>

\* SystemTime::now() in ms since the epoch, as inject_timeout reads it
SystemTimeNowMs == 45000

\* variant for C1: every synthetic payload goes to /response
TerminatingEndpointResponse(mode) == "response"

\* where a terminating failure's payload is posted
TerminatingEndpoint(mode) ==
    IF mode = "statuscode" THEN "response" ELSE "error"

\* what it posts
TerminatingPayload(failure) ==
    IF failure.mode = "statuscode"
    THEN ToBody(build_statuscode_payload(failure.flag))
    ELSE ToBody(build_exception_payload(failure.flag))

\* the effect a failure that passed its gate starts
Dispatch(me, failure) ==
    LET began == [me EXCEPT !.trace = Append(@, <<failure.mode, "start">>)]
    IN CASE failure.mode = "latency" ->
               {[began EXCEPT !.pc = "n_sleep", !.sleep_ms = ms] :
                   ms \in LatencyMs(failure.flag)}
         [] failure.mode = "timeout" ->
               {[began EXCEPT !.pc = "n_sleep",
                    !.sleep_ms = TimeoutMs(me.deadline_ms, failure.flag,
                                           SystemTimeNowMs)]}
         [] failure.mode = "diskspace" -> {[began EXCEPT !.pc = "n_disk"]}
         [] failure.mode = "denylist" ->
               IF failure.flag.deny_list # None
               THEN {[began EXCEPT !.pc = "w_create", !.written = 0]}
               ELSE {[me EXCEPT !.idx = @ + 1]}
         [] failure.mode \in {"statuscode", "exception"} ->
               {[began EXCEPT !.pc = "n_post",
                    !.endpoint = TerminatingEndpoint(failure.mode),
                    !.body = TerminatingPayload(failure),
                    !.fired = @ \cup {[id |-> me.request_id,
                                       mode |-> failure.mode,
                                       deny |-> me.denylist_active,
                                       filled |-> me.request_id \in
                                                     diskFiles]}]}
         [] OTHER -> {[me EXCEPT !.idx = @ + 1]}

\* Step 5: one turn of the loop over the resolved failures
NLoop(t) ==
    /\ task[t].pc = "n_loop"
    /\ LET me == task[t]
           failure == me.resolved[me.idx]
           skip == [me EXCEPT !.idx = @ + 1]
       IN IF me.idx > Len(me.resolved)
          THEN Set(t, [me EXCEPT !.pc = "n_after"])
          ELSE IF failure.mode = "corruption"
          THEN Set(t, [skip EXCEPT
                          !.post_handler_failures = Append(@, failure)])
          ELSE IF /\ failure.flag.match_conditions # None
                  /\ ~matches_conditions(me.event,
                          Unwrap(failure.flag.match_conditions))
          THEN Set(t, skip)
          ELSE \E roll \in Rolls :
                  IF roll >= failure.percentage
                  THEN Set(t, skip)
                  ELSE \E r \in Dispatch(me, failure) : Set(t, r)
    /\ UNCHANGED <<world, cache, invocations, files, upstream, handed,
                   nFinish>>

\* the effect of the failure at idx is over
Ended(me) ==
    [me EXCEPT !.pc = "n_loop", !.idx = @ + 1, !.sleep_ms = 0, !.written = 0,
               !.trace = Append(@, <<me.resolved[me.idx].mode, "end">>)]

\* the latency or timeout sleep is over
NSleep(t) ==
    /\ task[t].pc = "n_sleep"
    /\ Set(t, Ended(task[t]))
    /\ UNCHANGED <<world, cache, invocations, files, upstream, handed,
                   nFinish>>

\* inject_diskspace on a blocking worker: the fill file, unless it cannot be
\* created
NDisk(t) ==
    /\ task[t].pc = "n_disk"
    /\ \E created \in BOOLEAN :
          diskFiles' = IF created THEN diskFiles \cup {task[t].request_id}
                       ELSE diskFiles
    /\ Set(t, Ended(task[t]))
    /\ UNCHANGED <<world, cache, invocations, denyFile, denyTmp, upstream,
                   handed, nFinish>>

\* variant for C30: a write_denylist that failed counts as installed
WriteFailedActive(me) == [Ended(me) EXCEPT !.denylist_active = TRUE]

\* write_denylist returned Err: logged, and the loop goes on
WriteFailed(me) == Ended(me)

\* write_denylist: File::create of the temporary file.  A file has its
\* lines and the connections whose handlers hold it open; a file that is
\* there is truncated and stays the same file
WCreate(t) ==
    /\ task[t].pc = "w_create"
    /\ \E ok \in BOOLEAN :
          IF ok
          THEN /\ denyTmp' = Some([lines |-> <<>>,
                     open |-> IF denyTmp = None THEN {t}
                              ELSE Unwrap(denyTmp).open \cup {t}])
               /\ Set(t, [task[t] EXCEPT !.pc = "w_write"])
          ELSE /\ UNCHANGED denyTmp
               /\ Set(t, WriteFailed(task[t]))
    /\ UNCHANGED <<world, cache, invocations, denyFile, diskFiles, upstream,
                   handed, nFinish>>

\* a write of one line at offset k (in lines) of a file: beyond the end of
\* the file it leaves a hole
WriteAt(lines, k, line) ==
    IF k < Len(lines) THEN [lines EXCEPT ![k + 1] = line]
    ELSE lines \o [i \in 1..(k - Len(lines)) |-> <<"NUL">>] \o <<line>>

\* the handle of connection t is dropped
Closed(file, t) ==
    IF file = None THEN None
    ELSE Some([Unwrap(file) EXCEPT !.open = @ \ {t}])

\* write_denylist: writeln! of one pattern, into the file the handle is
\* open on, whatever its name is by now
WWrite(t) ==
    /\ task[t].pc = "w_write"
    /\ LET me == task[t]
           patterns == Unwrap(me.resolved[me.idx].flag.deny_list)
           Written(file) ==
               IF file # None /\ t \in Unwrap(file).open
               THEN Some([Unwrap(file) EXCEPT !.lines =
                             WriteAt(@, me.written, patterns[me.written + 1])])
               ELSE file
       IN /\ me.written < Len(patterns)
          /\ \E ok \in BOOLEAN :
                IF ok
                THEN /\ denyTmp' = Written(denyTmp)
                     /\ denyFile' = Written(denyFile)
                     /\ Set(t, [me EXCEPT !.written = @ + 1])
                ELSE /\ denyTmp' = Closed(denyTmp, t)
                     /\ denyFile' = Closed(denyFile, t)
                     /\ Set(t, WriteFailed(me))
    /\ UNCHANGED <<world, cache, invocations, diskFiles, upstream, handed,
                   nFinish>>

\* write_denylist: sync_all and rename of whatever has the temporary name
\* over the denylist file; Ok(()) sets denylist_active
WRename(t) ==
    /\ task[t].pc = "w_write"
    /\ LET me == task[t]
           patterns == Unwrap(me.resolved[me.idx].flag.deny_list)
       IN /\ me.written = Len(patterns)
          /\ \E ok \in BOOLEAN :
                IF ok /\ denyTmp # None
                THEN /\ denyFile' = Some([lines |-> Unwrap(denyTmp).lines,
                                           open |-> Unwrap(denyTmp).open \ {t},
                                           owner |-> me.request_id])
                     /\ denyTmp' = None
                     /\ Set(t, [Ended(me) EXCEPT !.denylist_active = TRUE])
                ELSE /\ denyTmp' = Closed(denyTmp, t)
                     /\ denyFile' = Closed(denyFile, t)
                     /\ Set(t, WriteFailed(me))
    /\ UNCHANGED <<world, cache, invocations, diskFiles, upstream, handed,
                   nFinish>>

\* post_to_runtime_api: the synthetic payload goes upstream; any status is
\* Ok(()), a failed exchange is the handler's Err
\* variant for C40: a status that is no success is an error too
PostFailedOnStatus(outcome) == outcome # "2xx"

\* post_to_runtime_api returns Err only when the request could not be sent
PostFailed(outcome) == outcome = "failed"

NPost(t) ==
    /\ task[t].pc = "n_post"
    /\ LET me == task[t]
       IN \E outcome \in {"2xx", "non2xx", "failed"} :
             /\ upPosts' = IF outcome = "failed" THEN upPosts
                           ELSE [upPosts EXCEPT ![me.request_id] =
                                   Append(@, [endpoint |-> me.endpoint,
                                              by |-> "proxy"])]
             /\ IF PostFailed(outcome)
                THEN Set(t, Returned(me, BadGateway))
                ELSE Set(t, [me EXCEPT !.pc = "n_after",
                                !.should_short_circuit = TRUE,
                                !.warned = outcome = "non2xx",
                                !.trace = Append(@,
                                    <<me.resolved[me.idx].mode, "end">>)])
    /\ UNCHANGED <<world, cache, invocations, files, upNext, handed,
                   nFinish>>

\* variant for C4: state is stored for deferred failures only
MustStoreDeferred(me) == me.post_handler_failures # <<>>

\* variant for C24: after a short-circuit the handler pulls at once
ContinueLoopPull == "n_get"

\* variant for C9: the handler stops after a short-circuit
ContinueLoopHalted == "halted"

\* the condition under which the per-invocation state is stored
MustStore(me) == me.post_handler_failures # <<>> \/ me.denylist_active

\* where the handler goes on after a short-circuit: the top of its loop
ContinueLoop == "n_clear"

\* Step 6 and 7: a short-circuit cleans up and loops; otherwise the state
\* for the response phase is stored under the table's lock
NAfter(t) ==
    /\ task[t].pc = "n_after"
    /\ LET me == task[t]
       IN IF me.should_short_circuit
          THEN /\ IF me.denylist_active THEN RemoveDenylist
                  ELSE UNCHANGED <<denyFile, denyTmp>>
               /\ Set(t, [me EXCEPT !.pc = ContinueLoop, !.resolved = <<>>,
                             !.idx = 0, !.body = BinBody, !.endpoint = "",
                             !.should_short_circuit = FALSE,
                             !.warned = FALSE,
                             !.post_handler_failures = <<>>,
                             !.denylist_active = FALSE, !.trace = <<>>])
               /\ UNCHANGED invocations
          ELSE /\ invocations' =
                      IF MustStore(me)
                      THEN [id \in DOMAIN invocations \cup {me.request_id} |->
                              IF id = me.request_id
                              THEN [failures |-> me.post_handler_failures,
                                    event |-> me.event,
                                    denylist_active |-> me.denylist_active]
                              ELSE invocations[id]]
                      ELSE invocations
               /\ Set(t, [me EXCEPT !.pc = "n_return", !.idx = 0])
               /\ UNCHANGED <<denyFile, denyTmp>>
    /\ UNCHANGED <<world, cache, diskFiles, upstream, handed, nFinish>>

\* Step 8: build_proxy_response, the event goes to the runtime
NReturn(t) ==
    /\ task[t].pc = "n_return"
    /\ LET me == task[t]
       IN /\ Set(t, Returned(me, build_proxy_response(
                                me.event_body, me.response_headers)))
          /\ handed' = handed \cup {me.request_id}
    /\ UNCHANGED <<world, cache, invocations, files, upstream, nFinish>>

\* the answer is written; the connection waits for its next request
Finish(t) ==
    /\ task[t].pc = "done"
    /\ Set(t, IdleTask)
    /\ UNCHANGED <<world, cache, invocations, files, upstream, handed,
                   nFinish>>

(***************************************************************************)
(* proxy.rs: POST /runtime/invocation/{id}/response and .../error.         *)
(***************************************************************************)
\* variant for C6: match conditions evaluated against the response body
MatchSubjectResponse(inv_state, body) == UnwrapOr(FromSlice(body), JNull)

\* the failures the response handler applies, and the event it matches on
DeferredFailures(inv_state) == inv_state.failures
MatchSubject(inv_state, body) == inv_state.event

\* the corruption loop of handle_invocation_response: the bodies it can end
\* with, over the rolls and the truncation points
RECURSIVE CorruptFrom(_, _, _, _)
CorruptFrom(failures, inv_state, i, body) ==
    IF i > Len(failures) THEN {body}
    ELSE LET failure == failures[i]
             rest == CorruptFrom(failures, inv_state, i + 1, body)
         IN IF failure.mode # "corruption" THEN rest
            ELSE IF /\ failure.flag.match_conditions # None
                    /\ ~matches_conditions(MatchSubject(inv_state, body),
                            Unwrap(failure.flag.match_conditions))
            THEN rest
            ELSE UNION {
                   IF roll >= failure.percentage \/ ~IsUtf8(body) THEN rest
                   ELSE UNION {CorruptFrom(failures, inv_state, i + 1, b) :
                                 b \in corrupt_response(failure.flag, body)} :
                   roll \in Rolls}

FinalBodies(invocation_state, body_bytes) ==
    IF invocation_state = None THEN {body_bytes}
    ELSE CorruptFrom(DeferredFailures(Unwrap(invocation_state)),
                     Unwrap(invocation_state), 1, body_bytes)

\* invocations.remove(&request_id)
TakeState(id) ==
    IF id \in DOMAIN invocations THEN Some(invocations[id]) ELSE None

\* variant for C37: the state stays in the table
WithoutEntryKept(id) == invocations

WithoutEntry(id) == [x \in DOMAIN invocations \ {id} |-> invocations[x]]

\* variant for C2: the denylist file is left in place
CleanupDenylistKeeps(denylist_was_active) == UNCHANGED <<denyFile, denyTmp>>

\* cleanup_denylist
CleanupDenylist(denylist_was_active) ==
    IF denylist_was_active THEN RemoveDenylist
    ELSE UNCHANGED <<denyFile, denyTmp>>

WasActive(taken) == taken # None /\ Unwrap(taken).denylist_active

\* a POST of the runtime for an event it has received arrives; a request
\* whose body cannot be read (req.collect() fails) is answered 502 at once
Arrive(t, kind, first) ==
    /\ task[t].pc = "idle"
    /\ nFinish < MaxFinish
    /\ nFinish' = nFinish + 1
    /\ \E id \in handed, body \in RuntimeBodies, readable \in BOOLEAN :
          /\ Set(t, IF readable
                    THEN [IdleTask EXCEPT !.pc = first, !.kind = kind,
                             !.request_id = id, !.body = body]
                    ELSE Returned([IdleTask EXCEPT !.kind = kind,
                                      !.request_id = id], BadGateway))
    /\ UNCHANGED <<world, cache, invocations, files, upstream, handed>>

StartResponse(t) == Arrive(t, "response", "r_take")

\* the state is taken from the table and the corruption applied
RTake(t) ==
    /\ task[t].pc = "r_take"
    /\ LET me == task[t]
           invocation_state == TakeState(me.request_id)
       IN /\ invocations' = WithoutEntry(me.request_id)
          /\ \E final \in FinalBodies(invocation_state, me.body) :
                Set(t, [me EXCEPT !.pc = "r_cleanup", !.removed = TRUE,
                           !.taken = invocation_state, !.final_body = final])
    /\ UNCHANGED <<world, cache, files, upstream, handed, nFinish>>

RCleanup(t) ==
    /\ task[t].pc = "r_cleanup"
    /\ CleanupDenylist(WasActive(task[t].taken))
    /\ Set(t, [task[t] EXCEPT !.pc = "r_send"])
    /\ UNCHANGED <<world, cache, invocations, diskFiles, upstream, handed,
                   nFinish>>

\* how the forward of a runtime POST ends: answered by the upstream, not
\* sent, or sent with the answer's body unreadable
Forward(t, endpoint, sent) ==
    LET me == task[t]
    IN /\ \E outcome \in {"answered", "failed", "unread"}, status \in Statuses :
             /\ upPosts' = IF outcome = "failed" THEN upPosts
                           ELSE [upPosts EXCEPT ![me.request_id] =
                                   Append(@, [endpoint |-> endpoint,
                                              by |-> "runtime"])]
             /\ Set(t, Returned(me, IF outcome = "answered"
                                     THEN Answer(status, BinBody, <<>>)
                                     ELSE BadGateway))

RSend(t) ==
    /\ task[t].pc = "r_send"
    /\ Forward(t, "response", task[t].final_body)
    /\ UNCHANGED <<world, cache, invocations, files, upNext, handed, nFinish>>

StartError(t) == Arrive(t, "error", "e_take")

\* variant for C7: the error handler applies the stored corruption too
ErrorBodyCorrupted(me) ==
    LET bodies == FinalBodies(TakeState(me.request_id), me.body)
    IN CHOOSE b \in bodies : bodies # {me.body} => b # me.body

\* the body the error handler forwards
ErrorBody(me) == me.body

ETake(t) ==
    /\ task[t].pc = "e_take"
    /\ LET me == task[t]
       IN /\ invocations' = WithoutEntry(me.request_id)
          /\ Set(t, [me EXCEPT !.pc = "e_cleanup", !.removed = TRUE,
                        !.taken = TakeState(me.request_id),
                        !.final_body = ErrorBody(me)])
    /\ UNCHANGED <<world, cache, files, upstream, handed, nFinish>>

ECleanup(t) ==
    /\ task[t].pc = "e_cleanup"
    /\ CleanupDenylist(WasActive(task[t].taken))
    /\ Set(t, [task[t] EXCEPT !.pc = "e_send"])
    /\ UNCHANGED <<world, cache, invocations, diskFiles, upstream, handed,
                   nFinish>>

ESend(t) ==
    /\ task[t].pc = "e_send"
    /\ Forward(t, "error", task[t].final_body)
    /\ UNCHANGED <<world, cache, invocations, files, upNext, handed, nFinish>>

(***************************************************************************)
(* The specification.                                                      *)
(***************************************************************************)
\* a step of begin-invocation, get_config included
NextStep(t) ==
    \/ NClear(t) \/ NTable(t) \/ NGet(t) \/ NGetFail(t)
    \/ GCheck(t) \/ GFetch(t) \/ GStore(t) \/ GStale(t)
    \/ NResolve(t) \/ NLoop(t) \/ NSleep(t) \/ NDisk(t)
    \/ WCreate(t) \/ WWrite(t) \/ WRename(t)
    \/ NPost(t) \/ NAfter(t) \/ NReturn(t)

\* a step of finish-success or finish-error
FinishStep(t) ==
    \/ RTake(t) \/ RCleanup(t) \/ RSend(t)
    \/ ETake(t) \/ ECleanup(t) \/ ESend(t)

Next ==
    \/ Tick
    \/ RotateConfig
    \/ \E t \in Conns :
          \/ StartNext(t) \/ StartResponse(t) \/ StartError(t)
          \/ NextStep(t) \/ FinishStep(t) \/ Finish(t)

Spec == Init /\ [][Next]_vars

(***************************************************************************)
(* An upstream that never runs out of events, for what begin-invocation    *)
(* does in the long run: once MaxEvents ids are out, the next event comes  *)
(* under the id of an invocation that is over.  The source holds one       *)
(* configuration, any of Rotated, throughout.  The proxy's steps and the   *)
(* upstream's answers are taken when they can be: the tokio runtime polls  *)
(* a ready task, and the upstream answers every request.                   *)
(***************************************************************************)
InitLive == Started /\ remote \in DOMAIN Rotated

NGetAgain(t) ==
    /\ task[t].pc = "n_get"
    /\ upNext = MaxEvents
    /\ Pull(t, 1)

NextLive ==
    \/ Tick
    \/ \E t \in Conns :
          \/ StartNext(t) \/ NextStep(t) \/ NGetAgain(t) \/ Finish(t)

SpecLive ==
    /\ InitLive
    /\ [][NextLive]_vars
    /\ \A t \in Conns : WF_vars(NextStep(t) \/ NGetAgain(t))

(***************************************************************************)
(* Two connections served at once: start_proxy spawns a task per accepted  *)
(* connection, and the tasks share the ProxyState.  SpecFetch follows the  *)
(* two begin-invocation handlers up to the return of get_config.           *)
(***************************************************************************)
Accepted == {1, 2}

\* the environments of Envs, and AppConfig with an empty FAILURE_CACHE_TTL
InitConc ==
    /\ StartedWith(Accepted,
                   Envs \cup {Environment(None, Some(<<"flags">>),
                                          Some(<<"param">>), Some(<<>>))})
    /\ remote = 1

NextFetch ==
    \/ Tick
    \/ RotateConfig
    \/ \E t \in Accepted :
          \/ StartNext(t) \/ NClear(t) \/ NTable(t) \/ NGet(t) \/ NGetFail(t)
          \/ GCheck(t) \/ GFetch(t) \/ GStore(t) \/ GStale(t)
          \/ Finish(t)

SpecFetch == InitConc /\ [][NextFetch]_vars

(***************************************************************************)
(* SpecDeny follows the handlers of two connections through everything     *)
(* they do, under one environment and with the one configuration that has  *)
(* the denylist failure at the source throughout.                          *)
(***************************************************************************)
InitDeny ==
    /\ StartedWith(Accepted,
                   {Environment(None, None, Some(<<"param">>), None)})
    /\ remote = Len(Configs)

\* every step there is with this configuration: nothing sleeps, fills the
\* disk or ends an invocation by a POST of the proxy's own
NextDeny ==
    \E t \in Accepted :
       \/ StartNext(t) \/ StartResponse(t) \/ StartError(t)
       \/ NClear(t) \/ NTable(t) \/ NGet(t) \/ NGetFail(t)
       \/ GCheck(t) \/ GFetch(t) \/ GStore(t) \/ GStale(t)
       \/ NResolve(t) \/ NLoop(t)
       \/ WCreate(t) \/ WWrite(t) \/ WRename(t)
       \/ NAfter(t) \/ NReturn(t)
       \/ FinishStep(t) \/ Finish(t)

SpecDeny == InitDeny /\ [][NextDeny]_vars

(***************************************************************************)
(* proxy.rs: the requests that are none of the three invocation calls.     *)
(***************************************************************************)
\* requests a runtime sends, the path by its segments; text tells whether
\* the value of a header is visible ASCII
Requests ==
    LET Header(name, text) == [name |-> name, text |-> text]
        Request(method, path, headers, body) ==
            [method |-> method, path |-> path, headers |-> headers,
             body |-> body]
        api == <<"2018-06-01", "runtime">>
        host == Header("host", TRUE)
        length == Header("content-length", TRUE)
        type == Header("content-type", TRUE)
    IN {Request("GET", api \o <<"invocation", "next">>, <<host>>, BinBody),
        Request("POST", api \o <<"invocation", "1", "response">>,
                <<host, length>>, TextBody(<<"plain">>)),
        Request("POST", api \o <<"invocation", "1", "error">>,
                <<host, length>>, TextBody(<<"plain">>)),
        Request("POST", api \o <<"init", "error">>,
                <<host, type, length,
                  Header("lambda-runtime-function-error-type", TRUE)>>,
                TextBody(<<"init failed">>)),
        Request("POST", api \o <<"invocation", "1", "other">>,
                <<host, Header("x-trace", FALSE), type>>, BinBody),
        Request("PUT", api \o <<"invocation", "1", "response">>,
                <<type>>, TextBody(<<"plain">>)),
        Request("GET", <<"ping">>, <<host>>, BinBody)}

\* what the upstream answers to a forwarded request
UpstreamAnswers ==
    {Answer(202, TextBody(<<"ok">>),
            <<[name |-> "content-type", text |-> TRUE]>>),
     Answer(404, BinBody, <<[name |-> "x-amzn-errortype", text |-> TRUE],
                            [name |-> "content-type", text |-> TRUE]>>)}

\* handle_request: the handler a request goes to
Route(method, path) ==
    LET EndsWith(tail) ==
            Len(path) >= Len(tail)
            /\ SubSeq(path, Len(path) - Len(tail) + 1, Len(path)) = tail
    IN
    IF method = "GET" /\ EndsWith(<<"runtime", "invocation", "next">>)
    THEN "next"
    ELSE IF method = "POST"
            /\ \E i \in 1..(Len(path) - 2) :
                  path[i] = "runtime" /\ path[i + 1] = "invocation"
         THEN IF EndsWith(<<"response">>) THEN "response"
              ELSE IF EndsWith(<<"error">>) THEN "error"
                   ELSE "passthrough"
         ELSE "passthrough"

\* collect_forward_headers: host and content-length stay behind, and so
\* does a header whose value is no visible ASCII (HeaderValue::to_str)
collect_forward_headers(headers) ==
    SelectSeq(headers, LAMBDA h : h.name \notin {"host", "content-length"}
                                  /\ h.text)

\* a request for passthrough arrives; one whose body cannot be read
\* (req.collect() fails) is answered 502 at once
StartOther(t) ==
    /\ task[t].pc = "idle"
    /\ \E req \in Requests, readable \in BOOLEAN :
          /\ Route(req.method, req.path) = "passthrough"
          /\ Set(t, IF readable
                    THEN [IdleTask EXCEPT !.pc = "p_send",
                             !.kind = "passthrough", !.req = Some(req)]
                    ELSE Returned([IdleTask EXCEPT !.kind = "passthrough"],
                                  BadGateway))
    /\ UNCHANGED <<world, cache, invocations, files, upstream, handed,
                   nFinish>>

\* passthrough: the request goes upstream and the answer comes back; the
\* request is not sent, or the body of the answer cannot be read
PSend(t) ==
    /\ task[t].pc = "p_send"
    /\ LET me == task[t]
           req == Unwrap(me.req)
           sent == [req EXCEPT !.headers = collect_forward_headers(@)]
       IN \E outcome \in {"answered", "failed", "unread"},
             answer \in UpstreamAnswers :
             Set(t, Returned(
                 [me EXCEPT !.got =
                     IF outcome = "failed" THEN None
                     ELSE Some([req |-> req, sent |-> sent,
                                answer |-> answer])],
                 IF outcome = "answered"
                 THEN Answer(answer.status, answer.body, <<>>)
                 ELSE BadGateway))
    /\ UNCHANGED <<world, cache, invocations, files, upstream, handed,
                   nFinish>>

(***************************************************************************)
(* The proxy with every kind of request.                                   *)
(***************************************************************************)
NextAll ==
    \/ Next
    \/ \E t \in Conns : StartOther(t) \/ PSend(t)

SpecAll == Init /\ [][NextAll]_vars

(***************************************************************************)
(* The gate of the pre-handler failures.  SpecGate takes up a              *)
(* begin-invocation handler where get_config has returned, for the first   *)
(* event and for configurations with latency and statuscode at every       *)
(* percentage of 0, 50, 100 and 150, with and without a match condition.   *)
(***************************************************************************)
InitGate ==
    /\ env = Environment(None, None, Some(<<"param">>), None)
    /\ remote = 1
    /\ boot = Serving
    /\ invocations = NoInvocations
    /\ denyFile = None /\ denyTmp = None /\ diskFiles = {}
    /\ upNext = 1
    /\ upPosts = [id \in Ids |-> <<>>]
    /\ handed = {}
    /\ nFinish = 0
    /\ \E e \in Events, p, q \in {0, 50, 100, 150},
          m, n \in {None, OnGet} :
          LET config ==
                  [latency |-> [DefaultFlag EXCEPT !.enabled = TRUE,
                                   !.min_latency = Some(10),
                                   !.max_latency = Some(10),
                                   !.percentage = Some(p),
                                   !.match_conditions = m],
                   statuscode |-> [DefaultFlag EXCEPT !.enabled = TRUE,
                                   !.status_code = Some(503),
                                   !.percentage = Some(q),
                                   !.match_conditions = n]]
          IN /\ cache = Some([config |-> config, elapsed |-> 0])
             /\ task = [t \in Conns |->
                   [IdleTask EXCEPT
                      !.pc = "n_resolve", !.kind = "next",
                      !.request_id = 1, !.first_id = 1,
                      !.deadline_ms = UnwrapOr(e.deadline, 0),
                      !.response_headers = TextHeaders(UpstreamHeaders(1, e)),
                      !.event_body = e.body,
                      !.event = UnwrapOr(FromSlice(e.body), JNull),
                      !.got = Some([body |-> e.body,
                                    headers |-> UpstreamHeaders(1, e)]),
                      !.config = config, !.via = "cache"]]

NextGate ==
    \E t \in Conns :
       \/ NResolve(t) \/ NLoop(t) \/ NSleep(t) \/ NPost(t) \/ NAfter(t)
       \/ NReturn(t)

SpecGate == InitGate /\ [][NextGate]_vars

(***************************************************************************)
(* main.rs: the startup.  SpecBoot starts where main starts, with           *)
(* _ORIGINAL_RUNTIME_API absent, empty or set, and follows the connection  *)
(* handlers, once connections are accepted, up to the return of            *)
(* get_config.                                                             *)
(***************************************************************************)
InitBoot ==
    /\ env \in Envs
    /\ remote = 1
    /\ Untouched
    /\ task = [t \in Conns |-> IdleTask]
    /\ \E api \in {None, Some(<<>>), Some(<<"127.0.0.1:9001">>)} :
          boot = [pc |-> "main", api |-> api, steps |-> <<>>, code |-> None]

Exited(code) == [boot EXCEPT !.pc = "exited", !.code = Some(code)]

\* variant for C33: main goes on without _ORIGINAL_RUNTIME_API
BMainUnchecked ==
    /\ boot.pc = "main"
    /\ boot' = [boot EXCEPT !.pc = "prewarm"]
    /\ \E t \in Conns :
          Set(t, [IdleTask EXCEPT !.pc = "g_check", !.kind = "prewarm"])
    /\ UNCHANGED <<env, remote, cache, invocations, files, upstream, handed,
                   nFinish>>

\* main: _ORIGINAL_RUNTIME_API is read, exit(1) if it is not set; then
\* get_config is called, on no connection's behalf
BMain ==
    /\ boot.pc = "main"
    /\ IF boot.api = None
       THEN boot' = Exited(1) /\ UNCHANGED task
       ELSE /\ boot' = [boot EXCEPT !.pc = "prewarm"]
            /\ \E t \in Conns :
                  Set(t, [IdleTask EXCEPT !.pc = "g_check",
                                          !.kind = "prewarm"])
    /\ UNCHANGED <<env, remote, cache, invocations, files, upstream, handed,
                   nFinish>>

\* get_config has returned, its result is dropped; start_proxy binds the
\* listener, and its Err is exit(1)
BBind ==
    /\ boot.pc = "prewarm"
    /\ \E t \in Conns :
          /\ task[t].kind = "prewarm" /\ task[t].pc = "n_resolve"
          /\ Set(t, IdleTask)
    /\ \E ok \in BOOLEAN :
          boot' = IF ok
                  THEN [boot EXCEPT !.pc = "bound",
                                    !.steps = @ \o <<"prewarm", "bind">>]
                  ELSE [Exited(1) EXCEPT !.steps = @ \o <<"prewarm">>]
    /\ UNCHANGED <<env, remote, cache, invocations, files, upstream, handed,
                   nFinish>>

\* start_proxy writes /tmp/.failure-lambda-ready; its Err is exit(1)
BReady ==
    /\ boot.pc = "bound"
    /\ \E ok \in BOOLEAN :
          boot' = IF ok
                  THEN [boot EXCEPT !.pc = "serving",
                                    !.steps = Append(@, "ready")]
                  ELSE Exited(1)
    /\ UNCHANGED <<env, remote, cache, invocations, files, upstream, handed,
                   task, nFinish>>

NextBoot ==
    \/ BMain \/ BBind \/ BReady
    \/ \E t \in Conns :
          \/ boot.pc = "serving" /\ StartNext(t)
          \/ NClear(t) \/ NTable(t) \/ NGet(t) \/ NGetFail(t)
          \/ GCheck(t) \/ GFetch(t) \/ GStore(t) \/ GStale(t)
          \/ Finish(t)

SpecBoot == InitBoot /\ [][NextBoot]_vars


(***************************************************************************)
(* The runtime posts its response a second time.                           *)
(***************************************************************************)
\* the answer to a POST .../X/response whose handler has taken the state of
\* X is written, and the runtime sends POST .../X/response again on the
\* same connection
StartResponseAgain(t) ==
    /\ task[t].pc = "done" /\ task[t].kind = "response"
    /\ task[t].removed
    /\ nFinish = MaxFinish
    /\ nFinish' = nFinish + 1
    /\ \E body \in RuntimeBodies :
          Set(t, [IdleTask EXCEPT !.pc = "r_take", !.kind = "response",
                     !.request_id = task[t].request_id, !.body = body])
    /\ UNCHANGED <<world, cache, invocations, files, upstream, handed>>

NextTwice == Next \/ \E t \in Conns : StartResponseAgain(t)

SpecTwice == Init /\ [][NextTwice]_vars
(***************************************************************************)
(* The functions of config.rs and failures.rs called on their own, as the  *)
(* tests of those files call them: the caller holds the arguments in its   *)
(* locals, calls, and holds the result.  Nothing else of the process is    *)
(* touched.                                                                *)
(***************************************************************************)
Calling(locals) ==
    /\ env = Environment(None, None, None, None)
    /\ remote = 1
    /\ boot = Serving
    /\ Untouched
    /\ task = [t \in Conns |-> locals]

Result(t, r) ==
    /\ Set(t, r)
    /\ UNCHANGED <<world, cache, invocations, files, upstream, handed,
                   nFinish>>

\* the maps resolve_failures is called with (HashMap<String, FlagValue>:
\* any keys, the mode names among them): every choice of keys with the
\* flags on or off, and every percentage on one or two of the modes
ResolveInputs ==
    LET FlagWith(enabled, percentage) ==
            [DefaultFlag EXCEPT !.enabled = enabled,
                                !.percentage = percentage]
        MapsOver(keys, flags) == UNION {[S -> flags] : S \in SUBSET keys}
    IN MapsOver(known_flags \cup {"other"},
                {FlagWith(TRUE, None), FlagWith(FALSE, None)})
       \cup MapsOver({"timeout", "corruption"},
                     {FlagWith(e, p) : e \in BOOLEAN,
                                       p \in {None} \cup
                                             {Some(n) : n \in 0..MaxPercentage}})

InitResolve ==
    \E config \in ResolveInputs :
       Calling([IdleTask EXCEPT !.pc = "resolve_failures",
                                !.config = config])

CallResolve(t) ==
    /\ task[t].pc = "resolve_failures"
    /\ Result(t, [task[t] EXCEPT
                     !.resolved = resolve_failures(task[t].config),
                     !.pc = "resolved"])

SpecResolve == InitResolve /\ [][\E t \in Conns : CallResolve(t)]_vars

(***************************************************************************)
(* parse_flags called on raw JSON, and on what a parsed config serializes  *)
(* to.                                                                     *)
(***************************************************************************)
\* parse_flags is called with raw JSON: what is no object, the empty
\* object, and the objects with one member of any shape and further
\* members beside it.  to_value is called with what parse_flags returned,
\* and with the configs the source of the model holds.
InitParse ==
    LET
        On == "enabled" :> JBool(TRUE)
        Off == "enabled" :> JBool(FALSE)

        Condition(fields) == JArr(<<JObj(fields)>>)

        \* the shapes a member of the raw root takes, whatever its key
        CommonShapes ==
            [not_object |-> JBool(TRUE),
             empty |-> JObj(NoFields),
             on |-> JObj(On),
             enabled_text |-> JObj("enabled" :> JStr(<<"yes">>)),
             percentage_over |-> JObj(On @@ "percentage" :> JNum(101)),
             percentage_ok |-> JObj(Off @@ "percentage" :> JNum(50)),
             percentage_fraction |-> JObj(On @@ "percentage" :> JFloat(50)),
             match_eq |->
                JObj(Off @@ "match" :> Condition("path" :> JStr(<<"a">>)
                                                 @@ "value" :> JStr(<<"x">>))),
             match_bad_regex |->
                JObj(On @@ "match" :> Condition("path" :> JStr(<<>>)
                                                @@ "operator" :> JStr(<<"regex">>)
                                                @@ "value" :> JStr(<<"[">>))),
             match_no_value |->
                JObj(On @@ "match" :> Condition("path" :> JStr(<<"a">>))),
             match_exists |->
                JObj(On @@ "match" :> Condition("path" :> JStr(<<"a">>)
                                                @@ "operator" :> JStr(<<"exists">>))),
             match_operator_unknown |->
                JObj(On @@ "match" :> Condition("path" :> JStr(<<"a">>)
                                                @@ "operator" :> JStr(<<"bogus">>))),
             extra_member |-> JObj(On @@ "note" :> JStr(<<"x">>)),
             status_code_over |-> JObj(On @@ "status_code" :> JNum(600))]

        \* three shapes of the mode's own field
        OwnShapes(key) ==
            CASE key = "latency" ->
                   [own_first |-> JObj(On @@ "min_latency" :> JNum(10)
                                       @@ "max_latency" :> JFloat(20)),
                    own_second |-> JObj(On @@ "min_latency" :> JNum(20)
                                        @@ "max_latency" :> JNum(10)),
                    own_third |-> JObj(On @@ "min_latency" :> JNum(-1))]
              [] key = "timeout" ->
                   [own_first |-> JObj(On @@ "timeout_buffer_ms" :> JFloat(500)),
                    own_second |-> JObj(On @@ "timeout_buffer_ms" :> JNum(-1)),
                    own_third |-> JObj(On @@ "timeout_buffer_ms" :> JStr(<<"5">>))]
              [] key = "diskspace" ->
                   [own_first |-> JObj(On @@ "disk_space" :> JNum(10240)),
                    own_second |-> JObj(On @@ "disk_space" :> JNum(0)),
                    own_third |-> JObj(On @@ "disk_space" :> JNum(10241))]
              [] key = "denylist" ->
                   [own_first |-> JObj(On @@ "deny_list" :> JArr(<<JStr(<<"a.example">>)>>)),
                    own_second |-> JObj(On @@ "deny_list" :> JArr(<<JStr(<<"a.example">>),
                                                                 JStr(<<"[">>)>>)),
                    own_third |-> JObj(On @@ "deny_list" :> JStr(<<"a.example">>))]
              [] key = "statuscode" ->
                   [own_first |-> JObj(On @@ "status_code" :> JNum(404)),
                    own_second |-> JObj(On @@ "status_code" :> JNum(99)),
                    own_third |-> JObj(On @@ "status_code" :> JNum(70000))]
              [] key = "exception" ->
                   [own_first |-> JObj(On @@ "exception_msg" :> JStr(<<"boom">>)),
                    own_second |-> JObj(On @@ "exception_msg" :> JNull),
                    own_third |-> JObj(On @@ "exception_msg" :> JNum(5))]
              [] key = "corruption" ->
                   [own_first |-> JObj(On @@ "body" :> JStr(<<"corrupted">>)),
                    own_second |-> JObj(On @@ "body" :> JNull),
                    own_third |-> JObj(On @@ "body" :> JBool(TRUE))]
              [] OTHER ->
                   [own_first |-> JObj(On), own_second |-> JObj(On),
                    own_third |-> JObj(On)]

        Shapes == DOMAIN CommonShapes \cup {"own_first", "own_second", "own_third"}

        Shaped(key, shape) ==
            IF shape \in DOMAIN CommonShapes THEN CommonShapes[shape]
            ELSE OwnShapes(key)[shape]

        \* the keys of the raw root: the modes, a key of the 0.x format, another
        RawKeys == known_flags \cup {"isEnabled", "other"}
        \* the shapes the further members of a root take
        Companions == {"on", "percentage_over", "not_object"}
        Parse(raw) ==
            Calling([IdleTask EXCEPT !.pc = "parse_flags",
                                     !.kind = "parse_flags", !.event = raw])
    IN \/ \E raw \in {JNull, JBool(TRUE), JNum(1), JStr(<<"x">>), JArr(<<>>),
                       JObj(NoFields)} : Parse(raw)
       \/ \E key \in RawKeys, shape \in Shapes :
             \E S \in {K \in SUBSET (RawKeys \ {key}) :
                         Cardinality(K) < MaxMembers} :
                \E beside \in [S -> Companions] :
                   Parse(JObj((key :> Shaped(key, shape))
                              @@ [k \in S |-> CommonShapes[beside[k]]]))
       \/ \E i \in DOMAIN Configs :
             Calling([IdleTask EXCEPT !.pc = "to_value",
                                      !.kind = "to_value",
                                      !.config = Configs[i]])

\* parse_flags returns the config of the raw JSON
CallParse(t) ==
    /\ task[t].pc = "parse_flags"
    /\ Result(t, [task[t] EXCEPT
                     !.config = parse_flags(task[t].event),
                     !.pc = "to_value"])

\* to_value writes the config as JSON
CallSerialize(t) ==
    /\ task[t].pc = "to_value"
    /\ Result(t, [task[t] EXCEPT !.body = ToBody(to_value(task[t].config)),
                                 !.pc = "parse_again"])

\* parse_flags returns the config of what to_value wrote
CallParseAgain(t) ==
    /\ task[t].pc = "parse_again"
    /\ Result(t, [task[t] EXCEPT
                     !.fetched = Some(parse_flags(Unwrap(FromSlice(
                                                     task[t].body)))),
                     !.pc = "parsed_again"])

SpecParse ==
    InitParse
    /\ [][\E t \in Conns :
             CallParse(t) \/ CallSerialize(t) \/ CallParseAgain(t)]_vars

(***************************************************************************)
(* matches_conditions called on an event with a list of conditions, and    *)
(* with the two parts the list splits into at idx.                         *)
(***************************************************************************)
InitMatch ==
    LET Get == <<"G", "E", "T">>
        events ==
            {ApiEvent(Get), ApiEvent(<<"P", "O", "S", "T">>),
             JObj([statusCode |-> JNum(200), requestContext |-> JNull]),
             JStr(Get)}
        pool ==
            {MatchCondition(MethodPath, Some(Get), None),
             MatchCondition(MethodPath, Some(<<"G">>), Some("startsWith")),
             MatchCondition(<<"requestContext">>, None, Some("exists")),
             MatchCondition(MethodPath, Some(<<"[">>), Some("regex")),
             MatchCondition(MethodPath, Some(<<"E">>), Some("regex")),
             MatchCondition(<<"statusCode">>, Some(<<"2", "0", "0">>),
                            Some("eq"))}
    IN \E event \in events, n \in 0..MaxConditions :
          \E conditions \in [1..n -> pool], split \in 0..n :
             Calling([IdleTask EXCEPT
                         !.pc = "matches_conditions", !.event = event,
                         !.config = [latency |-> [DefaultFlag EXCEPT
                                        !.match_conditions = Some(conditions)]],
                         !.idx = split])

CallMatches(t) ==
    /\ task[t].pc = "matches_conditions"
    /\ LET me == task[t]
           conditions == Unwrap(me.config["latency"].match_conditions)
           first == SubSeq(conditions, 1, me.idx)
           second == SubSeq(conditions, me.idx + 1, Len(conditions))
       IN Result(t, [me EXCEPT
                        !.got = Some([whole |-> matches_conditions(me.event,
                                                    conditions),
                                      first |-> matches_conditions(me.event,
                                                    first),
                                      second |-> matches_conditions(me.event,
                                                    second)]),
                        !.pc = "matched"])

SpecMatch == InitMatch /\ [][\E t \in Conns : CallMatches(t)]_vars

(***************************************************************************)
(* corrupt_response called with a corruption flag and a response body:     *)
(* JSON objects with and without a body field, JSON that is no object,     *)
(* and text that is no JSON.                                               *)
(***************************************************************************)
InitCorrupt ==
    LET Absent == JBool(FALSE)
        objects ==
            {JObj([key \in {k \in DOMAIN members : members[k] # Absent}
                     |-> members[key]]) :
               members \in [body : {Absent, JNum(1), JNull}
                                   \cup {JStr(text) : text \in
                                           {<<"a", "b", "c", "d">>, <<>>,
                                            <<"a">>, <<"e'", "u:">>,
                                            <<"a", "e'", "FFFD", "b", "c",
                                              "d", "e", "f">>}},
                            statusCode : {Absent, JNum(200), JNum(500)},
                            headers : {Absent, JObj(NoFields)}]}
        bodies ==
            {ToBody(v) : v \in objects \cup {JNum(1), JStr(<<"x">>), JNull,
                                             JArr(<<>>)}}
            \cup {TextBody(<<"plain">>), TextBody(<<>>)}
        flags ==
            {[DefaultFlag EXCEPT !.enabled = TRUE, !.body = replacement] :
               replacement \in {Some(<<"corrupted">>), Some(<<>>),
                                Some(<<"{", "}">>), None}}
    IN \E flag \in flags, body \in bodies :
          Calling([IdleTask EXCEPT !.pc = "corrupt_response",
                                   !.config = [corruption |-> flag],
                                   !.body = body])

CallCorrupt(t) ==
    /\ task[t].pc = "corrupt_response"
    /\ \E corrupted \in corrupt_response(task[t].config["corruption"],
                                         task[t].body) :
          Result(t, [task[t] EXCEPT !.final_body = corrupted,
                                    !.pc = "corrupted"])

SpecCorrupt == InitCorrupt /\ [][\E t \in Conns : CallCorrupt(t)]_vars

(***************************************************************************)
(* Properties.                                                             *)
(***************************************************************************)

\* C1 (as stated): when begin-invocation answers the runtime, every event X
\* for which a terminating failure fired in that call has had its synthetic
\* payload posted upstream (statuscode to X/response, exception to X/error),
\* X has not been returned to the runtime, and the call has pulled another
\* event since.
C1_ShortCircuitAlwaysCompletes ==
    \A t \in Conns :
       task[t].pc = "done" /\ task[t].kind = "next" =>
          \A f \in task[t].fired :
             /\ \E i \in DOMAIN upPosts[f.id] :
                   upPosts[f.id][i] =
                      [endpoint |-> IF f.mode = "statuscode" THEN "response"
                                    ELSE "error",
                       by |-> "proxy"]
             /\ f.id \notin handed
             /\ task[t].request_id # f.id

\* C1 (amended): when a terminating failure fires for event X, the payload
\* built for its mode is sent to X/response (statuscode) or X/error
\* (exception) and X is never returned to the runtime; if the exchange with
\* the upstream completes the POST is received there and the call goes back
\* to GET /next before it answers, so that a 200 answer carries a later
\* event; if the exchange fails, or the further GET /next does, the call
\* answers 502.
C1_TerminatingFailureConsumesEvent ==
    /\ [](\A t \in Conns :
            /\ \A f \in task[t].fired : f.id \notin handed
            /\ task[t].pc = "n_post" =>
                  LET failure == task[t].resolved[task[t].idx]
                  IN /\ \E f \in task[t].fired :
                           /\ f.id = task[t].request_id
                           /\ f.mode = failure.mode
                     /\ failure.mode = "statuscode" =>
                           /\ task[t].endpoint = "response"
                           /\ task[t].body =
                                 ToBody(build_statuscode_payload(failure.flag))
                     /\ failure.mode = "exception" =>
                           /\ task[t].endpoint = "error"
                           /\ task[t].body =
                                 ToBody(build_exception_payload(failure.flag)))
    /\ [][\A t \in Conns :
            LET me == task[t]
                after == task'[t]
            IN /\ me.pc = "n_post" /\ after.pc # "done" =>
                     /\ upPosts' = [upPosts EXCEPT ![me.request_id] =
                                      Append(@, [endpoint |-> me.endpoint,
                                                 by |-> "proxy"])]
                     /\ after.pc = "n_after" /\ after.should_short_circuit
               /\ me.pc = "n_after" /\ me.should_short_circuit =>
                     after.pc = "n_clear"
               /\ me.pc # "done" /\ after.pc = "done" /\ me.kind = "next"
                  /\ me.fired # {} =>
                     \/ /\ me.pc \in {"n_post", "n_get"}
                        /\ after.resp = Some(BadGateway)
                        /\ upPosts' = upPosts
                     \/ /\ me.pc \notin {"n_post", "n_get"}
                        /\ Unwrap(after.resp).status = 200
                        /\ \A f \in me.fired :
                              /\ after.request_id # f.id
                              /\ upPosts[f.id] # <<>>]_vars

\* a later event is returned with 200 after a short-circuit
C1_Witness ==
    \E t \in Conns :
       /\ task[t].pc = "done" /\ task[t].kind = "next"
       /\ task[t].fired # {}
       /\ Unwrap(task[t].resp).status = 200
       /\ \A f \in task[t].fired : upPosts[f.id] # <<>>

\* C2: when an event Y is handed to the runtime, no denylist file of an
\* invocation that has ended (in finish-success or finish-error after it
\* was handed to the runtime, or in a short-circuit whose payload the
\* upstream received) is left: a denylist file present at that moment was
\* installed for Y, or for an event that was never handed to the runtime
\* and for which nothing was posted upstream.
C2_DenylistGoneBeforeNextEvent ==
    \A t \in Conns :
       /\ task[t].pc = "done" /\ task[t].kind = "next"
       /\ Unwrap(task[t].resp).status = 200
       /\ denyFile # None
       /\ Unwrap(denyFile).owner # task[t].request_id
       => /\ Unwrap(denyFile).owner \notin handed
          /\ upPosts[Unwrap(denyFile).owner] = <<>>

\* an event is handed over after the short-circuit of an invocation that
\* had the denylist installed
C2_Witness ==
    \E t \in Conns :
       /\ task[t].pc = "done" /\ task[t].kind = "next"
       /\ Unwrap(task[t].resp).status = 200
       /\ \E f \in task[t].fired : f.deny /\ upPosts[f.id] # <<>>

\* C3: once finish-success or finish-error for X has completed, with
\* whatever answer to the runtime, the invocation table has no entry for X.
C3_NoEntryAfterFinish ==
    \A t \in Conns :
       task[t].pc = "done" /\ task[t].kind \in {"response", "error"} =>
          task[t].request_id \notin DOMAIN invocations

\* C4: when begin-invocation is about to return event X, the table has an
\* entry for X iff a corruption failure was resolved or the denylist file
\* was installed for X; the table holds entries only for events handed to
\* the runtime (or being handed), and an entry goes only in finish-success
\* or finish-error for its id or at the start of a begin-invocation.
C4_EntryIffPendingState ==
    /\ [](/\ \A t \in Conns :
               task[t].pc = "n_return" =>
                  LET X == task[t].request_id
                  IN X \in DOMAIN invocations <=>
                        \/ \E i \in DOMAIN task[t].resolved :
                              task[t].resolved[i].mode = "corruption"
                        \/ denyFile # None /\ Unwrap(denyFile).owner = X
          /\ \A id \in DOMAIN invocations :
                \/ id \in handed
                \/ \E t \in Conns :
                      task[t].pc = "n_return" /\ task[t].request_id = id)
    /\ [][\A id \in DOMAIN invocations :
             \/ /\ id \in DOMAIN invocations'
                /\ invocations'[id] = invocations[id]
             \/ \E t \in Conns :
                   \/ /\ task[t].pc \in {"r_take", "e_take"}
                      /\ task[t].request_id = id
                   \/ task[t].pc = "n_table"]_vars

\* an event is about to be returned with an entry stored for its denylist
C4_Witness ==
    \E t \in Conns :
       /\ task[t].pc = "n_return"
       /\ task[t].request_id \in DOMAIN invocations
       /\ invocations[task[t].request_id].denylist_active
       /\ denyFile # None

\* C5: within a pass of begin-invocation the effects start and end one at
\* a time, in the order latency, timeout, diskspace, denylist, statuscode,
\* exception, and corruption is not among them.
C5_CanonicalOrder ==
    \A t \in Conns :
       LET tr == task[t].trace
           canon == <<"latency", "timeout", "diskspace", "denylist",
                      "statuscode", "exception">>
           rank(m) == CHOOSE k \in DOMAIN canon : canon[k] = m
       IN \A i \in DOMAIN tr :
             /\ \E k \in DOMAIN canon : canon[k] = tr[i][1]
             /\ tr[i][2] = IF i % 2 = 1 THEN "start" ELSE "end"
             /\ i % 2 = 0 => tr[i][1] = tr[i - 1][1]
             /\ i % 2 = 1 /\ i > 2 => rank(tr[i - 2][1]) < rank(tr[i][1])

\* three effects in one pass
C5_Witness ==
    \E t \in Conns :
       /\ Len(task[t].trace) >= 6
       /\ task[t].post_handler_failures # <<>>

\* C6: the corruption finish-success applies to X's response is that of the
\* corruption failures and the event stored for X when begin-invocation
\* returned X: the entry holds the corruption failures resolved then and the
\* event pulled then, finish-success takes the entry as it was stored, each
\* stored failure is matched against the stored event, and the body it ends
\* with is one the stored failures produce; the configuration at the source
\* and in the cache plays no part.
C6_CorruptionFromStoredState ==
    /\ [](\A t \in Conns :
            LET me == task[t]
                RECURSIVE Stored(_, _, _)
                Stored(failures, event, bodies) ==
                    IF failures = <<>> THEN bodies
                    ELSE LET flag == Head(failures).flag
                             applies ==
                                 \/ flag.match_conditions = None
                                 \/ matches_conditions(event,
                                        Unwrap(flag.match_conditions))
                             hit == {roll \in Rolls :
                                       roll < Head(failures).percentage}
                             next ==
                                 IF ~applies THEN bodies
                                 ELSE (IF hit # Rolls THEN bodies ELSE {})
                                      \cup (IF hit = {} THEN {}
                                            ELSE UNION {
                                               IF IsUtf8(b)
                                               THEN corrupt_response(flag, b)
                                               ELSE {b} : b \in bodies})
                         IN Stored(Tail(failures), event, next)
            IN /\ me.pc = "n_return" /\ me.request_id \in DOMAIN invocations =>
                     /\ invocations[me.request_id].failures =
                           SelectSeq(me.resolved,
                                     LAMBDA f : f.mode = "corruption")
                     /\ invocations[me.request_id].event = me.event
               /\ me.pc = "r_cleanup" =>
                     me.final_body \in
                        IF me.taken = None THEN {me.body}
                        ELSE Stored(Unwrap(me.taken).failures,
                                    Unwrap(me.taken).event, {me.body}))
    /\ [][\A t \in Conns :
            /\ \A id \in DOMAIN invocations \cap DOMAIN invocations' :
                  invocations'[id] = invocations[id]
            /\ task[t].pc = "r_take" /\ task'[t].pc = "r_cleanup" =>
                  /\ task'[t].taken =
                        IF task[t].request_id \in DOMAIN invocations
                        THEN Some(invocations[task[t].request_id]) ELSE None
                  /\ task'[t].body = task[t].body
                  /\ UNCHANGED <<remote, cache>>]_vars

\* a response is corrupted while the source holds a configuration without
\* corruption
C6_Witness ==
    \E t \in Conns :
       /\ task[t].pc = "r_cleanup"
       /\ task[t].final_body # task[t].body
       /\ \A i \in DOMAIN resolve_failures(Configs[remote]) :
             resolve_failures(Configs[remote])[i].mode # "corruption"

\* C7: finish-error, for a request whose body it has read, forwards that
\* body unchanged to upstream {id}/error, whatever is stored for the id, and
\* removes the denylist files exactly if the state stored for the id had
\* denylist_active = true; otherwise it leaves them as they are.
C7_ErrorForwardedVerbatim ==
    [][\A t \in Conns :
         LET me == task[t]
             after == task'[t]
             stored == IF me.request_id \in DOMAIN invocations
                       THEN Some(invocations[me.request_id]) ELSE None
         IN /\ me.pc = "e_take" /\ after.pc # "e_take" =>
                  /\ after.taken = stored
                  /\ after.final_body = me.body /\ after.body = me.body
                  /\ UNCHANGED <<denyFile, denyTmp>>
            /\ me.pc = "e_cleanup" /\ after.pc # "e_cleanup" =>
                  /\ after.final_body = me.body /\ after.pc = "e_send"
                  /\ IF me.taken # None /\ Unwrap(me.taken).denylist_active
                     THEN denyFile' = None /\ denyTmp' = None
                     ELSE UNCHANGED <<denyFile, denyTmp>>
            /\ me.pc = "e_send" /\ after.pc # "e_send" =>
                  /\ me.final_body = me.body
                  /\ \/ upPosts' = upPosts
                     \/ upPosts' = [upPosts EXCEPT ![me.request_id] =
                                      Append(@, [endpoint |-> "error",
                                                 by |-> "runtime"])]
                  /\ UNCHANGED <<denyFile, denyTmp>>]_vars

\* an error body that the stored corruption would change is forwarded
C7_Witness ==
    \E t \in Conns :
       /\ task[t].pc = "e_send"
       /\ task[t].taken # None
       /\ Unwrap(task[t].taken).failures # <<>>
       /\ FinalBodies(task[t].taken, task[t].body) # {task[t].body}

\* C8: with FAILURE_LAMBDA_DISABLED exactly "true" begin-invocation fetches
\* no configuration, starts no failure effect, posts nothing upstream,
\* stores no invocation state, and answers 200 with the first event it
\* pulled, body and headers as the upstream sent them.
C8_KillSwitch ==
    env.FAILURE_LAMBDA_DISABLED = Some("true") =>
       /\ cache = None
       /\ invocations = NoInvocations
       /\ denyFile = None /\ denyTmp = None /\ diskFiles = {}
       /\ \A id \in Ids : \A i \in DOMAIN upPosts[id] :
             upPosts[id][i].by # "proxy"
       /\ \A t \in Conns :
             task[t].kind = "next" =>
                /\ task[t].pc \in {"n_clear", "n_table", "n_get", "done"}
                /\ task[t].via = "" /\ task[t].trace = <<>>
                /\ task[t].fired = {}
                /\ task[t].pc = "done" /\ task[t].got # None =>
                      /\ task[t].request_id = task[t].first_id
                      /\ task[t].resp =
                            Some([status |-> 200,
                                  body |-> Unwrap(task[t].got).body,
                                  headers |-> Unwrap(task[t].got).headers])

\* C9 (as stated): after a short-circuit the begin-invocation call
\* eventually answers the runtime (with a later event and status 200, or
\* with 502 if the upstream fails).
C9_ShortCircuitEventuallyReturns ==
    \A t \in Conns :
       (task[t].pc = "n_after" /\ task[t].should_short_circuit)
          ~> (task[t].pc = "done")

\* C9 (amended): after a short-circuit the call goes on to pull another
\* event, or answers 502 if the upstream fails; and once the pass over an
\* event ends with no terminating failure fired, the call returns that
\* event with status 200.  It returns no event as long as a terminating
\* failure fires for every event it pulls.
C9_ShortCircuitPullsAgain ==
    \A t \in Conns :
       /\ (task[t].pc = "n_after" /\ task[t].should_short_circuit)
             ~> (task[t].pc \in {"g_check", "done"})
       /\ (task[t].pc = "n_after" /\ ~task[t].should_short_circuit)
             ~> (task[t].pc = "done" /\ Unwrap(task[t].resp).status = 200)

\* a later event is returned after a short-circuit
C9_Witness ==
    \E t \in Conns :
       /\ task[t].pc = "done" /\ task[t].kind = "next"
       /\ Unwrap(task[t].resp).status = 200
       /\ \E f \in task[t].fired : f.id # task[t].request_id

\* C10: get_config returns the cached config without a fetch exactly if the
\* slot is filled, the TTL is positive and less than the TTL has elapsed
\* since fetched_at; otherwise, with a source configured, it fetches, and a
\* fetch that succeeds puts the fetched config into the slot with a new
\* fetched_at.
C10_CacheFreshness ==
    [][\A t \in Conns :
         LET me == task[t]
             after == task'[t]
             fresh == /\ cache # None
                      /\ get_cache_ttl > 0
                      /\ Unwrap(cache).elapsed < get_cache_ttl
         IN /\ me.pc = "g_check" /\ after.pc # "g_check" =>
                  /\ fresh <=> after.pc = "n_resolve" /\ after.via = "cache"
                  /\ fresh => after.config = Unwrap(cache).config
                  /\ ~fresh /\ (is_appconfig_source \/ is_ssm_source) =>
                        after.pc = "g_fetch"
                  /\ cache' = cache
            /\ me.pc = "g_fetch" /\ after.pc = "g_store" =>
                  after.fetched = Some(Configs[remote]) /\ cache' = cache
            /\ me.pc = "g_store" /\ after.pc # "g_store" =>
                  /\ cache' = Some([config |-> Unwrap(me.fetched),
                                    elapsed |-> 0])
                  /\ after.config = Unwrap(me.fetched)]_vars

\* the cached config is returned some time after it was fetched
C10_Witness ==
    /\ cache # None /\ Unwrap(cache).elapsed > 0
    /\ \E t \in Conns : task[t].pc = "n_resolve" /\ task[t].via = "cache"

\* C11: when the fetch fails get_config returns the config in the cache
\* slot, however old, and the empty map only if the slot is empty, which
\* it is only as long as nothing was ever cached; a failed fetch is never
\* passed on: get_config returns a config and the caller goes on to
\* resolve it.
C11_StaleOnError ==
    [][/\ cache # None => cache' # None
       /\ \A t \in DOMAIN task :
            LET me == task[t]
                after == task'[t]
            IN /\ me.pc = "g_fetch" /\ after.pc # "g_fetch" =>
                     after.pc \in {"g_store", "g_stale"}
               /\ me.pc = "g_stale" /\ after.pc # "g_stale" =>
                     /\ after.pc = "n_resolve"
                     /\ cache' = cache
                     /\ cache # None => after.config = Unwrap(cache).config
                     /\ cache = None => after.config = EmptyConfig]_vars

\* an expired entry is returned after a failed fetch
C11_Witness ==
    \E t \in DOMAIN task :
       /\ task[t].pc = "n_resolve" /\ task[t].via = "stale"
       /\ cache # None
       /\ Unwrap(cache).elapsed >= get_cache_ttl
       /\ task[t].config = Unwrap(cache).config
       /\ task[t].config # EmptyConfig

(***************************************************************************)
(* C12: across any interleaving of concurrent get_config callers at most   *)
(* one fetch from the config source is in flight: a caller arriving while  *)
(* another caller's fetch is in progress does not start a second fetch.    *)
(* get_config drops the cache guard before it fetches, so two handlers     *)
(* can both be fetching.                                                   *)
(***************************************************************************)
C12_SingleFetchInFlight ==
    Cardinality({t \in DOMAIN task : task[t].pc = "g_fetch"}) <= 1

(***************************************************************************)
(* C13: with the AppConfig source selected and FAILURE_CACHE_TTL unset or  *)
(* empty the TTL is zero: every get_config call goes on to fetch, and a    *)
(* call never returns the cached entry as fresh; the cached entry is       *)
(* returned only by the fallback after a failed fetch.                     *)
(***************************************************************************)
C13_AppConfigAlwaysFetches ==
    /\ [](is_appconfig_source /\ ~NonEmpty(env.FAILURE_CACHE_TTL) => get_cache_ttl = 0)
    /\ [][is_appconfig_source /\ ~NonEmpty(env.FAILURE_CACHE_TTL) =>
            \A t \in DOMAIN task :
               LET me == task[t]  after == task'[t]
               IN /\ me.pc = "g_check" /\ after.pc # "g_check"
                     => after.pc = "g_fetch" /\ after.via = "fetch"
                  /\ me.pc # "n_resolve" /\ after.pc = "n_resolve"
                     => /\ after.via \in {"fetch", "stale"}
                        /\ after.via = "fetch"
                             => /\ me.pc = "g_store"
                                /\ after.config = Unwrap(me.fetched)
                        /\ after.via = "stale" => me.pc = "g_stale"]_vars

C13_Witness ==
    /\ is_appconfig_source
    /\ env.FAILURE_CACHE_TTL = Some(<<>>)
    /\ cache # None /\ Unwrap(cache).elapsed = 0
    /\ \E t \in DOMAIN task : task[t].pc = "g_fetch"

(***************************************************************************)
(* C14: when both an AppConfig configuration and a parameter-store name    *)
(* are configured, get_config fetches from AppConfig only: the parameter   *)
(* store is not contacted, not even when the AppConfig fetch fails.        *)
(***************************************************************************)
C14_AppConfigOnly ==
    /\ [](is_appconfig_source /\ is_ssm_source =>
            \A t \in DOMAIN task :
               /\ "ssm" \notin task[t].asked
               /\ task[t].pc \in {"g_fetch", "g_store", "g_stale"}
                     => task[t].asked = {"appconfig"})
    /\ [][is_appconfig_source /\ is_ssm_source =>
            \A t \in DOMAIN task :
               task[t].pc = "g_fetch" /\ task'[t].pc = "g_stale"
                  => task'[t].asked = {"appconfig"}]_vars

C14_Witness ==
    /\ is_appconfig_source /\ is_ssm_source
    /\ \E t \in DOMAIN task :
          /\ task[t].pc = "n_resolve" /\ task[t].via = "stale"
          /\ task[t].asked = {"appconfig"}

(***************************************************************************)
(* C15: resolve_failures lists the modes strictly in the canonical order   *)
(* latency, timeout, diskspace, denylist, statuscode, exception,           *)
(* corruption, each at most once, and lists exactly the modes that are in  *)
(* the map with enabled = true, each with its own flag.                    *)
(***************************************************************************)
C15_ResolveOrder ==
    \A t \in DOMAIN task :
       task[t].pc = "resolved" =>
          LET canonical == <<"latency", "timeout", "diskspace", "denylist",
                             "statuscode", "exception", "corruption">>
              modes == {canonical[i] : i \in DOMAIN canonical}
              Place(mode) == CHOOSE i \in DOMAIN canonical : canonical[i] = mode
              config == task[t].config
              failures == task[t].resolved
          IN /\ \A i \in DOMAIN failures : failures[i].mode \in modes
             /\ \A i, j \in DOMAIN failures :
                   i < j => Place(failures[i].mode) < Place(failures[j].mode)
             /\ {failures[i].mode : i \in DOMAIN failures}
                   = {m \in modes \cap DOMAIN config : config[m].enabled}
             /\ \A i \in DOMAIN failures :
                   failures[i].flag = config[failures[i].mode]

C15_Witness ==
    \E t \in DOMAIN task :
       /\ task[t].pc = "resolved"
       /\ Len(task[t].resolved) >= 3
       /\ "other" \in DOMAIN task[t].config
       /\ \E m \in DOMAIN task[t].config \ {"other"} :
             ~task[t].config[m].enabled

(***************************************************************************)
(* C16: the percentage of every resolved failure is in 0..100: 100 when    *)
(* the flag has none, 100 when the flag's is above 100, and the flag's     *)
(* own otherwise.                                                          *)
(***************************************************************************)
C16_EffectivePercentage ==
    \A t \in DOMAIN task :
       task[t].pc = "resolved" =>
          \A i \in DOMAIN task[t].resolved :
             LET failure == task[t].resolved[i]
                 percentage == failure.flag.percentage
             IN /\ failure.percentage \in 0..100
                /\ percentage = None => failure.percentage = 100
                /\ percentage # None /\ Unwrap(percentage) > 100
                      => failure.percentage = 100
                /\ percentage # None /\ Unwrap(percentage) <= 100
                      => failure.percentage = Unwrap(percentage)

C16_Witness ==
    \E t \in DOMAIN task :
       /\ task[t].pc = "resolved"
       /\ \E i, j \in DOMAIN task[t].resolved :
             /\ task[t].resolved[i].flag.percentage = Some(MaxPercentage)
             /\ task[t].resolved[i].percentage = 100
             /\ task[t].resolved[j].flag.percentage = Some(37)
             /\ task[t].resolved[j].percentage = 37

(***************************************************************************)
(* C17: parse_flags is total and all-or-nothing per mode.  Whatever the    *)
(* raw JSON, the keys of the result are canonical mode names; a root that  *)
(* is no object gives the empty map; a mode is in the result only with     *)
(* every field as the raw member gives it and with no validation error;    *)
(* and a mode whose member passes is in the result whatever the other      *)
(* members are.                                                            *)
(***************************************************************************)
C17_ParseAllOrNothing ==
    \A t \in DOMAIN task :
       task[t].pc = "to_value" /\ task[t].kind = "parse_flags" =>
          LET raw == task[t].event
              config == task[t].config
              modes == {"latency", "timeout", "diskspace", "denylist",
                        "statuscode", "exception", "corruption"}
              Passes(key) ==
                 /\ raw.f[key].t = "obj"
                 /\ from_value(raw.f[key]).ok
                 /\ validate_flag_value(key, from_value(raw.f[key]).v,
                                        raw.f[key]) = {}
          IN /\ DOMAIN config \subseteq modes
             /\ raw.t # "obj" => config = EmptyConfig
             /\ raw.t = "obj" =>
                   /\ DOMAIN config \subseteq DOMAIN raw.f
                   /\ \A key \in DOMAIN config :
                         /\ Passes(key)
                         /\ config[key] = from_value(raw.f[key]).v
                   /\ \A key \in modes \cap DOMAIN raw.f :
                         Passes(key) => key \in DOMAIN config

C17_Witness ==
    \E t \in DOMAIN task :
       /\ task[t].pc = "to_value" /\ task[t].kind = "parse_flags"
       /\ task[t].event.t = "obj"
       /\ \E bad, good \in DOMAIN task[t].event.f :
             /\ bad \in known_flags
             /\ task[t].event.f[bad].t = "obj"
             /\ from_value(task[t].event.f[bad]).ok
             /\ Cardinality(validate_flag_value(bad,
                   from_value(task[t].event.f[bad]).v,
                   task[t].event.f[bad])) >= 2
             /\ bad \notin DOMAIN task[t].config
             /\ good \in DOMAIN task[t].config

(***************************************************************************)
(* C18: a config that parse_flags accepts, serialized and parsed again,    *)
(* is the same config.                                                     *)
(***************************************************************************)
C18_RoundTrip ==
    \A t \in DOMAIN task :
       task[t].pc = "parsed_again" =>
          task[t].fetched = Some(task[t].config)

C18_Witness ==
    \E t \in DOMAIN task :
       /\ task[t].pc = "parsed_again"
       /\ task[t].fetched = Some(task[t].config)
       /\ \E mode \in DOMAIN task[t].config :
             /\ task[t].config[mode].match_conditions # None
             /\ task[t].config[mode].timeout_buffer_ms # None

(***************************************************************************)
(* C19: matches_conditions holds of an event and the empty list, and of    *)
(* an event and a list C1 ++ C2 exactly when it holds of the event and C1  *)
(* and of the event and C2.                                                *)
(***************************************************************************)
C19_MatchesIsConjunction ==
    \A t \in DOMAIN task :
       task[t].pc = "matched" =>
          LET conditions == Unwrap(task[t].config["latency"].match_conditions)
              got == Unwrap(task[t].got)
          IN /\ got.whole <=> (got.first /\ got.second)
             /\ conditions = <<>> => got.whole
             /\ task[t].idx = 0 => got.first
             /\ task[t].idx = Len(conditions) => got.second

C19_Witness ==
    \E t \in DOMAIN task :
       /\ task[t].pc = "matched"
       /\ task[t].idx = 2
       /\ Len(Unwrap(task[t].config["latency"].match_conditions))
             = MaxConditions
       /\ Unwrap(task[t].got).first
       /\ ~Unwrap(task[t].got).second
       /\ ~Unwrap(task[t].got).whole

(***************************************************************************)
(* C20: for a corruption flag with a replacement body and a response body  *)
(* b: when b is a JSON object the result parses to an object whose body    *)
(* field is the replacement, with the other fields of b kept when b has a  *)
(* body field; when b is no JSON the result is the replacement itself.     *)
(***************************************************************************)
C20_ReplacementBody ==
    \A t \in DOMAIN task :
       LET flag == task[t].config["corruption"]
           before == FromSlice(task[t].body)
           after == FromSlice(task[t].final_body)
       IN task[t].pc = "corrupted" /\ flag.body # None =>
             /\ before # None /\ Unwrap(before).t = "obj" =>
                   /\ after # None /\ Unwrap(after).t = "obj"
                   /\ "body" \in DOMAIN Unwrap(after).f
                   /\ Unwrap(after).f["body"] = JStr(Unwrap(flag.body))
                   /\ "body" \in DOMAIN Unwrap(before).f =>
                         /\ DOMAIN Unwrap(after).f = DOMAIN Unwrap(before).f
                         /\ \A key \in DOMAIN Unwrap(before).f \ {"body"} :
                               Unwrap(after).f[key] = Unwrap(before).f[key]
             /\ before = None =>
                   task[t].final_body = TextBody(Unwrap(flag.body))

C20_Witness ==
    \E t \in DOMAIN task :
       /\ task[t].pc = "corrupted"
       /\ task[t].config["corruption"].body = Some(<<"corrupted">>)
       /\ FromSlice(task[t].body) # None
       /\ Unwrap(FromSlice(task[t].body)).t = "obj"
       /\ {"body", "statusCode"} \subseteq DOMAIN Unwrap(FromSlice(task[t].body)).f
       /\ Unwrap(FromSlice(task[t].body)).f["body"] = JNum(1)
       /\ Unwrap(FromSlice(task[t].final_body)).f["statusCode"] = JNum(500)
       /\ Unwrap(FromSlice(task[t].final_body)).f["body"]
             = JStr(<<"corrupted">>)

(***************************************************************************)
(* C21, as stated: for a corruption flag without a replacement body and a  *)
(* JSON response whose body field is a string of L bytes, the corrupted    *)
(* field is a prefix of the original of p bytes with 0.3 L <= p <= 0.8 L,  *)
(* followed by exactly three U+FFFD.  An empty string stays empty, and the *)
(* cut is rounded down twice (floor, then the character boundary), so p    *)
(* can be below 0.3 L.                                                     *)
(***************************************************************************)
C21_PrefixWithinFractions ==
    \A t \in DOMAIN task :
       LET before == FromSlice(task[t].body)
           after == FromSlice(task[t].final_body)
       IN /\ task[t].pc = "corrupted"
          /\ task[t].config["corruption"].body = None
          /\ before # None /\ Unwrap(before).t = "obj"
          /\ "body" \in DOMAIN Unwrap(before).f
          /\ Unwrap(before).f["body"].t = "str"
          => LET original == Unwrap(before).f["body"].s
                 mangled == Unwrap(after).f["body"].s
                 L == StrBytes(original)
             IN \E k \in 0..Len(original) :
                   /\ mangled = SubSeq(original, 1, k)
                                   \o <<"FFFD", "FFFD", "FFFD">>
                   /\ 3 * L <= 10 * StrBytes(SubSeq(original, 1, k))
                   /\ 10 * StrBytes(SubSeq(original, 1, k)) <= 8 * L

(***************************************************************************)
(* C21, amended: an empty body field stays empty.  A body field of L > 0   *)
(* bytes becomes a prefix of whole characters of p bytes, p < 0.8 L, that  *)
(* drops at least one character and with the first dropped character       *)
(* reaches beyond 0.3 L, followed by exactly three U+FFFD; the other       *)
(* fields are kept.  A response with no string body field is returned      *)
(* unchanged.                                                              *)
(***************************************************************************)
C21_MangledPrefix ==
    \A t \in DOMAIN task :
       LET before == FromSlice(task[t].body)
           after == FromSlice(task[t].final_body)
           hasText == /\ before # None /\ Unwrap(before).t = "obj"
                      /\ "body" \in DOMAIN Unwrap(before).f
                      /\ Unwrap(before).f["body"].t = "str"
       IN task[t].pc = "corrupted" /\ task[t].config["corruption"].body = None
          => /\ ~hasText => task[t].final_body = task[t].body
             /\ hasText =>
                   LET original == Unwrap(before).f["body"].s
                       mangled == Unwrap(after).f["body"].s
                       L == StrBytes(original)
                   IN /\ after # None /\ Unwrap(after).t = "obj"
                      /\ DOMAIN Unwrap(after).f = DOMAIN Unwrap(before).f
                      /\ \A key \in DOMAIN Unwrap(before).f \ {"body"} :
                            Unwrap(after).f[key] = Unwrap(before).f[key]
                      /\ original = <<>> => mangled = <<>>
                      /\ original # <<>> =>
                            \E k \in 0..(Len(original) - 1) :
                               LET p == StrBytes(SubSeq(original, 1, k))
                               IN /\ mangled = SubSeq(original, 1, k)
                                        \o <<"FFFD", "FFFD", "FFFD">>
                                  /\ 10 * p < 8 * L
                                  /\ 10 * (p + ByteLen(original[k + 1])) > 3 * L

C21_Witness ==
    \E t \in DOMAIN task :
       /\ task[t].pc = "corrupted"
       /\ task[t].config["corruption"].body = None
       /\ FromSlice(task[t].body) # None
       /\ Unwrap(FromSlice(task[t].body)).t = "obj"
       /\ "body" \in DOMAIN Unwrap(FromSlice(task[t].body)).f
       /\ Unwrap(FromSlice(task[t].body)).f["body"] = JStr(<<"e'", "u:">>)
       /\ Unwrap(FromSlice(task[t].final_body)).f["body"]
             = JStr(<<"FFFD", "FFFD", "FFFD">>)

\* C22: a request that is none of GET .../runtime/invocation/next, POST
\* .../runtime/invocation/{id}/response and POST .../{id}/error goes upstream
\* with its method, path, body and every header but host and content-length;
\* the runtime gets the status, headers and body of the upstream's answer;
\* the invocation table and the denylist files stay as they are.
C22_PassthroughVerbatim ==
    [][\A t \in Conns :
         LET me == task[t]
             after == task'[t]
         IN me.kind = "passthrough" \/ after.kind = "passthrough" =>
               /\ UNCHANGED <<invocations, denyFile, denyTmp>>
               /\ me.pc = "p_send" /\ after.got # None
                  /\ Unwrap(after.resp) # BadGateway =>
                     LET req == Unwrap(me.req)
                         did == Unwrap(after.got)
                     IN /\ did.sent = [req EXCEPT !.headers =
                              SelectSeq(@, LAMBDA h :
                                 h.name \notin {"host", "content-length"})]
                        /\ Unwrap(after.resp) = did.answer]_vars

\* C23: a handler whose request to the upstream fails (the pull of the next
\* event, the POST that ends a short-circuited invocation, the forward of a
\* response or an error, a passthrough) answers the runtime with status 502
\* and a body that starts with "proxy error: "; every handler that leaves
\* the step of an upstream request either goes on or has answered.
C23_UpstreamFailureIs502 ==
    [][\A t \in Conns :
         LET me == task[t]
             after == task'[t]
             proxy_error ==
                /\ after.pc = "done" /\ after.resp # None
                /\ Unwrap(after.resp).status = 502
                /\ Unwrap(after.resp).body.k = "text"
                /\ Unwrap(after.resp).body.s[1] = "proxy error: "
             answered == after.pc = "done" /\ after.resp # None
         IN /\ me.pc = "n_get" /\ after # me =>
                  \/ after.pc = "g_check"
                  \/ KillSwitch /\ answered /\ Unwrap(after.resp).status = 200
                  \/ proxy_error
            /\ me.pc = "n_post" /\ after # me =>
                  IF upPosts' = upPosts THEN proxy_error
                  ELSE after.pc = "n_after"
            /\ me.pc \in {"r_send", "e_send"} /\ after # me =>
                  IF upPosts' = upPosts THEN proxy_error ELSE answered
            /\ me.pc = "p_send" /\ after # me =>
                  IF after.got = None THEN proxy_error ELSE answered
            /\ after.pc = "idle" /\ me.pc # "idle" =>
                  me.pc = "done" /\ me.resp # None]_vars

\* a begin-invocation that ended one invocation by a short-circuit has
\* answered 502 on a later upstream request
C23_Witness ==
    \E t \in Conns :
       /\ task[t].pc = "done" /\ task[t].resp = Some(BadGateway)
       /\ task[t].kind = "next" /\ task[t].first_id # 0
       /\ upPosts[task[t].first_id] # <<>>

C27_CleanupOnlyWhenNoneActive ==
    [][\A t \in Accepted :
         LET me == task[t]
         IN /\ me.pc \in {"r_cleanup", "e_cleanup"}
            /\ task'[t].pc # me.pc
            /\ denyFile # None
            /\ \E id \in DOMAIN invocations :
                  id # me.request_id /\ invocations[id].denylist_active
            => denyFile' # None]_vars

\* C28: at no time are the begin-invocation handlers of two connections
\* both past the start of Step 1 and before their return.
C28_NextSerialized ==
    \A t, u \in Accepted :
       /\ task[t].kind = "next" /\ task[t].pc \notin {"idle", "done"}
       /\ task[u].kind = "next" /\ task[u].pc \notin {"idle", "done"}
       => t = u

\* C29: the denylist file is absent or holds, whole, the lines of the
\* deny_list of one denylist flag of the configuration.
C29_DenylistFileWhole ==
    denyFile # None =>
       \E i \in DOMAIN Configs :
          /\ "denylist" \in DOMAIN Configs[i]
          /\ Configs[i].denylist.deny_list # None
          /\ Unwrap(denyFile).lines = Unwrap(Configs[i].denylist.deny_list)

\* C30: when write_denylist fails (the temporary file cannot be created, a
\* line cannot be written, or the rename fails) the handler goes on with
\* denylist_active = false and with the failure after denylist in the
\* resolved list, what it has collected so far unchanged, and no denylist
\* file has been put in place; denylist_active is true only while the file
\* this invocation installed is there.
C30_DenylistFailureSkipped ==
    /\ [](\A t \in Conns :
             task[t].denylist_active =>
                denyFile # None
                /\ Unwrap(denyFile).owner = task[t].request_id)
    /\ [][\A t \in Conns :
            LET me == task[t]
                after == task'[t]
                installed == /\ denyTmp # None /\ denyTmp' = None
                             /\ denyFile' # None
                             /\ Unwrap(denyFile').owner = me.request_id
            IN me.pc \in {"w_create", "w_write"} /\ after.pc = "n_loop" =>
                  /\ ~me.denylist_active
                  /\ after.denylist_active = installed
                  /\ after.idx = me.idx + 1
                  /\ after.resolved = me.resolved
                  /\ after.post_handler_failures = me.post_handler_failures
                  /\ after.should_short_circuit = me.should_short_circuit
                  /\ after.event = me.event
                  /\ ~installed => denyFile' = denyFile]_vars

\* after a write_denylist that failed the statuscode or exception failure
\* has fired
C30_Witness ==
    \E t \in Conns :
       /\ task[t].pc = "n_post"
       /\ ~task[t].denylist_active
       /\ \E i \in DOMAIN task[t].trace :
             task[t].trace[i] = <<"denylist", "end">>

\* C31: when the POST of a short-circuit payload fails, begin-invocation
\* returns at once: the runtime's GET /next is answered 502, the call pulls
\* no further event, and the event it was short-circuiting is not handed
\* to the runtime.
C31_FailedShortCircuitPost ==
    [][\A t \in Conns :
         LET me == task[t]
             after == task'[t]
         IN /\ me.pc = "n_post" /\ after # me /\ upPosts' = upPosts =>
                  /\ after.pc = "done" /\ after.resp # None
                  /\ Unwrap(after.resp).status = 502
                  /\ Unwrap(after.resp).body = TextBody(<<"proxy error: ">>)
                  /\ after.request_id = me.request_id
                  /\ upNext' = upNext /\ handed' = handed
                  /\ me.request_id \notin handed
            /\ me.pc = "done" /\ me.kind = "next" /\ after # me =>
                  after.pc = "idle" /\ UNCHANGED <<upNext, handed>>]_vars

\* the POST for the first event of a call has failed
C31_Witness ==
    \E t \in Conns :
       /\ task[t].pc = "done" /\ task[t].kind = "next"
       /\ task[t].resp = Some(BadGateway)
       /\ \E f \in task[t].fired : f.id = task[t].request_id
       /\ upPosts[task[t].request_id] = <<>>
       /\ task[t].request_id \notin handed

\* C32: a pre-handler failure whose match conditions are present and not
\* met by the event is skipped; one whose effective percentage is 0 is
\* skipped; one whose conditions are absent or met is applied or skipped,
\* and is applied whenever its effective percentage is 100.  A skip moves on
\* to the next failure and does nothing else.
C32_Gate ==
    [][\A t \in Conns :
         LET me == task[t]
             after == task'[t]
             failure == me.resolved[me.idx]
             matches == \/ failure.flag.match_conditions = None
                        \/ matches_conditions(me.event,
                               Unwrap(failure.flag.match_conditions))
             skipped == after = [me EXCEPT !.idx = @ + 1]
             applied == /\ after.idx = me.idx
                        /\ after.trace =
                              Append(me.trace, <<failure.mode, "start">>)
         IN /\ me.pc = "n_loop" /\ after # me
            /\ me.idx <= Len(me.resolved) /\ failure.mode # "corruption"
            => /\ skipped \/ applied
               /\ ~matches => skipped
               /\ failure.percentage = 0 => skipped
               /\ matches /\ failure.percentage = 100 => applied
               /\ failure.percentage \in 0..100]_vars

\* a failure at 150 percent is being applied after one at 0 percent, with
\* its condition met, was skipped
C32_Witness ==
    \E t \in Conns :
       LET me == task[t]
       IN /\ me.pc = "n_post" /\ me.idx = 2
          /\ me.resolved[1].percentage = 0
          /\ me.resolved[1].flag.match_conditions # None
          /\ matches_conditions(me.event,
                 Unwrap(me.resolved[1].flag.match_conditions))
          /\ me.resolved[2].flag.percentage = Some(150)
          /\ me.trace = <<<<"statuscode", "start">>>>

\* C33: the startup does its steps in the order readiness marker, pre-warm
\* of the cache, bind of the listener, and only then are connections
\* served; without _ORIGINAL_RUNTIME_API none of the steps is done and the
\* process exits with a code that is not 0.
C33_MarkerFirst ==
    LET order == <<"ready", "prewarm", "bind">>
    IN /\ boot.steps = SubSeq(order, 1, Len(boot.steps))
       /\ (\E t \in Conns : task[t].kind = "next") => boot.steps = order
       /\ boot.api = None =>
             /\ boot.steps = <<>> /\ boot.pc \in {"main", "exited"}
             /\ boot.pc = "exited" => boot.code # Some(0)

\* C33, as the code has it: the cache is pre-warmed with one get_config,
\* then the listener is bound, then the readiness marker is written, and
\* only then are connections served; a step that fails ends the process
\* with code 1 and the later steps are not done; without
\* _ORIGINAL_RUNTIME_API none of the steps is done and the process exits
\* with code 1.
C33_MarkerLast ==
    LET order == <<"prewarm", "bind", "ready">>
    IN /\ boot.steps = SubSeq(order, 1, Len(boot.steps))
       /\ (\E t \in Conns : task[t].kind = "next") =>
             boot.steps = order /\ boot.pc = "serving"
       /\ boot.pc = "exited" => boot.code = Some(1) /\ boot.steps # order
       /\ boot.api = None =>
             /\ boot.steps = <<>> /\ boot.pc \in {"main", "exited"}
             /\ cache = None /\ \A t \in Conns : task[t] = IdleTask

\* a handler is served from the cache that the startup has filled
C33_Witness ==
    /\ boot.pc = "serving"
    /\ \E t \in Conns :
          /\ task[t].kind = "next" /\ task[t].pc = "n_resolve"
          /\ task[t].via = "cache"

\* C34: every 200 answer of begin-invocation carries exactly the body and
\* the headers of the last upstream GET /next answer the call pulled, no
\* pre-handler failure alters them, and the event handed over is never one
\* that a short-circuit consumed.
C34_EventUnaltered ==
    \A t \in Conns :
       LET me == task[t]
       IN (me.kind = "next" /\ me.pc = "done" /\ me.resp # None
              /\ Unwrap(me.resp).status = 200) =>
             /\ me.got # None
             /\ Unwrap(me.resp).body = Unwrap(me.got).body
             /\ Unwrap(me.resp).headers = Unwrap(me.got).headers
             /\ \A i \in DOMAIN upPosts[me.request_id] :
                   upPosts[me.request_id][i].by # "proxy"

\* C35: when begin-invocation hands event X to the runtime, the denylist
\* file is there only if the denylist failure fired and was installed for X
\* in that same pass; a file installed while an earlier event was handled
\* is never still there, also when that handling ended with a 502 because
\* the short-circuit POST failed after the file had been installed.
C35_NoDenylistFromEarlierEvent ==
    \A t \in Conns :
       LET me == task[t]
       IN (me.kind = "next" /\ me.pc = "done" /\ me.resp # None
              /\ Unwrap(me.resp).status = 200) =>
             (denyFile # None => Unwrap(denyFile).owner = me.request_id)

\* C36: for each request id X pulled from upstream the proxy sends of its
\* own at most one synthetic POST, never both .../X/response and
\* .../X/error; when statuscode and exception would both fire, the
\* statuscode payload alone is posted, to .../X/response, and the exception
\* failure is not evaluated for X: once a synthetic POST has gone out for
\* X no failure is evaluated for X any more, and an exception is posted
\* only after every statuscode failure resolved for X has been skipped.
C36_OneSyntheticPost ==
    /\ [](\A id \in Ids :
             Len(SelectSeq(upPosts[id], LAMBDA p : p.by = "proxy")) <= 1)
    /\ [](\A t \in Conns :
             task[t].pc \in {"n_loop", "n_sleep", "n_disk", "w_create",
                             "w_write", "n_post", "n_return"} =>
                \A i \in DOMAIN upPosts[task[t].request_id] :
                   upPosts[task[t].request_id][i].by # "proxy")
    /\ [][\A t \in Conns :
            LET me == task[t]
                after == task'[t]
            IN /\ (me.pc = "n_loop" /\ after.pc = "n_post") =>
                     LET failure == me.resolved[me.idx]
                     IN /\ after.body = TerminatingPayload(failure)
                        /\ after.idx = me.idx
                        /\ failure.mode = "statuscode" =>
                              after.endpoint = "response"
                        /\ failure.mode = "exception" =>
                              /\ after.endpoint = "error"
                              /\ \A i \in DOMAIN me.resolved :
                                    me.resolved[i].mode = "statuscode" =>
                                       i < me.idx
               /\ (me.pc = "n_post" /\ after.pc = "n_after") =>
                     /\ after.should_short_circuit
                     /\ after.idx = me.idx
                     /\ upPosts'[me.request_id] =
                           <<[endpoint |-> me.endpoint, by |-> "proxy"]>>
               /\ (me.pc = "n_after" /\ me.should_short_circuit
                      /\ after # me) =>
                     after.pc = ContinueLoop /\ after.resolved = <<>>]_vars

\* the statuscode payload has been posted for an event that the exception
\* failure, enabled and next in the resolved list, matches
C36_Witness ==
    \E t \in Conns :
       LET me == task[t]
       IN /\ me.pc = "n_after" /\ me.should_short_circuit
          /\ me.resolved[me.idx].mode = "statuscode"
          /\ upPosts[me.request_id] =
                <<[endpoint |-> "response", by |-> "proxy"]>>
          /\ \E i \in DOMAIN me.resolved :
                /\ i > me.idx /\ me.resolved[i].mode = "exception"
                /\ me.resolved[i].percentage = 100
                /\ me.resolved[i].flag.match_conditions # None
                /\ matches_conditions(me.event,
                        Unwrap(me.resolved[i].flag.match_conditions))

\* C37: finish-success takes the stored state out of the table before it
\* posts upstream, so corruption is applied at most once per request id:
\* after a POST .../X/response has been handled (its body read and the
\* state of X taken, the forward to the upstream answered or failed with
\* 502), a second POST .../X/response finds no state, is forwarded with its
\* body as the runtime sent it, and leaves the denylist files alone.
C37_SecondResponseUntouched ==
    /\ [](\A t \in Conns :
             LET me == task[t]
             IN /\ me.pc \in {"r_cleanup", "r_send"} =>
                      me.request_id \notin DOMAIN invocations
                /\ (nFinish > MaxFinish /\ me.pc \in {"r_cleanup", "r_send"}) =>
                      me.taken = None /\ me.final_body = me.body)
    /\ [][\A t \in Conns :
            LET me == task[t]
                after == task'[t]
            IN /\ (me.pc = "r_take" /\ after # me) =>
                     /\ after.pc = "r_cleanup" /\ upPosts' = upPosts
                     /\ me.request_id \notin DOMAIN invocations'
               /\ (nFinish > MaxFinish /\ after # me
                      /\ me.pc \in {"r_take", "r_cleanup", "r_send"}) =>
                     /\ UNCHANGED <<denyFile, denyTmp, invocations>>
                     /\ me.pc = "r_send" =>
                           \/ upPosts' = upPosts
                           \/ upPosts' = [upPosts EXCEPT ![me.request_id] =
                                 Append(@, [endpoint |-> "response",
                                            by |-> "runtime"])]]_vars

\* the second POST has been forwarded while a denylist file is in place,
\* after the first one ended with 502
C37_Witness ==
    \E t \in Conns :
       /\ nFinish > MaxFinish
       /\ task[t].pc = "done" /\ task[t].kind = "response"
       /\ Unwrap(task[t].resp).status = 202
       /\ upPosts[task[t].request_id] =
             <<[endpoint |-> "response", by |-> "runtime"]>>
       /\ denyFile # None

\* C38: a fetch that fails leaves the cache slot as it was (the same config
\* and the same fetched_at; an empty slot stays empty), so while the cached
\* entry is expired, or the slot is empty, every get_config call with a
\* source set attempts a fetch; the slot is written only by a fetch that
\* succeeded, with the config it fetched and fetched_at = now.
C38_FailedFetchKeepsSlot ==
    [][/\ \A t \in Conns :
            LET me == task[t]
                after == task'[t]
            IN /\ (me.pc \in {"g_fetch", "g_stale"} /\ after # me
                      /\ after.pc \in {"g_stale", "n_resolve"}) =>
                     cache' = cache
               /\ (me.pc = "g_check" /\ after # me
                      /\ (is_appconfig_source \/ is_ssm_source)
                      /\ \/ cache = None
                         \/ get_cache_ttl = 0
                         \/ Unwrap(cache).elapsed >= get_cache_ttl) =>
                     after.pc = "g_fetch" /\ cache' = cache
       /\ (\/ (cache = None) # (cache' = None)
           \/ /\ cache # None /\ cache' # None
              /\ \/ Unwrap(cache').config # Unwrap(cache).config
                 \/ Unwrap(cache').elapsed < Unwrap(cache).elapsed) =>
             \E t \in Conns :
                /\ task[t].pc = "g_store" /\ task[t].fetched # None
                /\ task'[t].pc = "n_resolve"
                /\ cache' = Some([config |-> Unwrap(task[t].fetched),
                                  elapsed |-> 0])]_vars

\* the get_config call for the second event fetches again, and fails
\* again, after the fetch for the first event failed: the slot is still
\* empty
C38_Witness ==
    \E t \in Conns :
       /\ task[t].pc = "n_resolve" /\ task[t].via = "stale"
       /\ task[t].request_id > 1
       /\ cache = None

\* C39: under concurrent get_config calls the cache never regresses: the
\* slot is never overwritten with the result of a fetch that started before
\* the fetch whose result the slot holds, so no later call is given an
\* older config as fresh after a newer one has been cached and returned.
C39_CacheNeverRegresses ==
    [][\A a \in DOMAIN task :
         (task[a].pc = "g_store" /\ task'[a].pc = "n_resolve") =>
            ~ \E b \in DOMAIN task \ {a} :
                 /\ a \in task[b].behind
                 /\ task[b].pc = "n_resolve" /\ task[b].via = "fetch"
                 /\ cache = Some([config |-> task[b].config,
                                  elapsed |-> Unwrap(cache).elapsed])]_vars

\* C40: when the upstream answers a short-circuit POST with a status that
\* is no success (the exchange itself succeeded), the invocation counts as
\* consumed all the same: the runtime gets no 502, the event is not handed
\* to it, the denylist file is removed if it was installed for that event,
\* nothing is stored for it, and the handler loops to pull another event.
C40_NonSuccessStillConsumed ==
    /\ [](\A t \in Conns :
             task[t].warned =>
                /\ task[t].pc = "n_after" /\ task[t].should_short_circuit
                /\ task[t].resp = None
                /\ task[t].request_id \notin handed)
    /\ [](\A id \in handed : \A i \in DOMAIN upPosts[id] :
             upPosts[id][i].by # "proxy")
    /\ [][\A t \in Conns :
            LET me == task[t]
                after == task'[t]
            IN /\ (me.pc = "n_post" /\ upPosts' # upPosts) =>
                     /\ after.pc = "n_after" /\ after.should_short_circuit
                     /\ after.resp = None
                     /\ after.denylist_active = me.denylist_active
                     /\ UNCHANGED <<denyFile, denyTmp, handed>>
               /\ (me.pc = "n_after" /\ me.warned /\ after # me) =>
                     /\ after.pc = ContinueLoop
                     /\ after.request_id = me.request_id
                     /\ after.resp = None
                     /\ UNCHANGED <<handed, invocations, upNext>>
                     /\ IF me.denylist_active
                        THEN denyFile' = None /\ denyTmp' = None
                        ELSE UNCHANGED <<denyFile, denyTmp>>]_vars

\* the upstream has answered the POST for an event, for which the denylist
\* file was installed, with a status that is no success
C40_Witness ==
    \E t \in Conns :
       /\ task[t].pc = "n_after" /\ task[t].warned
       /\ task[t].denylist_active
       /\ denyFile # None
       /\ Unwrap(denyFile).owner = task[t].request_id
=============================================================================
